---- MODULE Spec2Model ----
(***************************************************************************)
(* A model of tinybin: the struct registry (register.go), the protocol     *)
(* envelope (EncodeToBytes / DecodeFromBytes) and the codec engine         *)
(* (scanner.go, codecs.go, the Encoder's wire primitives).                 *)
(*                                                                         *)
(* Types are sequences of constructor names, outermost first:              *)
(*   <<"Person">>, <<"slice", "Person">>, <<"ptr", "int32">>, ...          *)
(* Values are payloads read against a type: a struct is the tuple of its   *)
(* field payloads, a slice or array the sequence of its elements, a        *)
(* pointer <<>> (nil) or <<p>>, a string the sequence of its bytes.        *)
(***************************************************************************)
EXTENDS Integers, Sequences, FiniteSets, TLC

VARIABLES
    typeHash,     \* tinyreflect's StructID of every struct type (fixed per process)
    cfg,          \* the arguments New was given for each engine
    MaxDepth,     \* Config.MaxDepth of each engine
    stObjects,    \* TinyBin.stObjects of each engine
    schemas,      \* TinyBin.schemas of each engine: the codec cache
    before,       \* stObjects of the engine of the last call, as that call found it
    op,           \* the last call: "new", "add", "encode", "decode" (the envelope),
                  \* "Encode", "Decode" (the codec engine)
    eng,          \* the engine the last call ran on
    arg,          \* the argument of the last call, [typ, val]; for AddStructs typ is
                  \* <<"structs">> and val the types of the values it was given
    err,          \* the error the last call returned ("" is nil)
    wire,         \* what the last EncodeToBytes or Encode returned, with the value
                  \* it was given
    dest,         \* the destination of the last DecodeFromBytes or Decode, after
                  \* the call; what the last DecodeToNew or varint decoder returned
    reads,        \* the indexes of its input the last header parse read
    pools,        \* TinyBin.encoders and TinyBin.decoders of each engine
    calls         \* the calls in progress, one for each goroutine

vars ==
    <<typeHash, cfg, MaxDepth, stObjects, schemas, before, op, eng, arg, err, wire, dest,
      reads, pools, calls>>

----------------------------------------------------------------------------
(* Bounds of the model *)

MaxSliceLen == 2      \* longest slice given to EncodeToBytes
MaxArgs == 2          \* most values given to one AddStructs call
MaxCfgDepth == 3      \* largest MaxDepth given in a Config
MaxCodecLen == 2      \* longest []bool given to Encode
MaxVarintLen == 11    \* most continuation bytes in a buffer given to a varint decoder
ArrayLen == 2         \* the length of the array type in use, [ArrayLen]int32

(* tinybin.go: New() without a Config *)
DefaultMaxDepth == 8

Engines == {"client", "server"}

----------------------------------------------------------------------------
(* The type universe: what tinyreflect reports about the types in use *)

ChainNames == <<"L1", "L2", "L3", "L4", "L5", "L6", "L7", "L8", "L9", "L10">>

ChainSet == {ChainNames[i] : i \in 1..Len(ChainNames)}

ChainIndex(name) == CHOOSE i \in 1..Len(ChainNames) : ChainNames[i] = name

EnvStructs == {"Person", "Company"}

\* the struct types given to the codec engine
CodecNames == <<"Basic", "Msg", "Flags", "Outer", "Inner", "Bad">>

CodecStructs == {CodecNames[i] : i \in 1..Len(CodecNames)}

\* two structs that refer to each other, NodeA through a pointer and a slice,
\* NodeB through a pointer; and Pair, which holds a small struct and then a chain
GraphStructs == {"NodeA", "NodeB", "Pair"}

StructNames == EnvStructs \cup ChainSet \cup CodecStructs \cup GraphStructs

\* More struct types than the codec cache holds, T1, T2, ..., each declared
\* as struct{}: the k-th is the type <<"gen", k>>.
GenType(k) == <<"gen", k>>

Fld(n, t) == [name |-> n, typ |-> t]

\* the fields of a struct type, in declaration order
Fields(name) ==
    CASE name = "Person"   -> <<Fld("Name", <<"string">>), Fld("Age", <<"int32">>)>>
      [] name = "Company"  -> <<Fld("Name", <<"string">>),
                                Fld("Employees", <<"slice", "Person">>)>>
      [] name \in ChainSet ->
            IF ChainIndex(name) < Len(ChainNames)
            THEN <<Fld("Next", <<ChainNames[ChainIndex(name) + 1]>>)>>
            ELSE <<Fld("V", <<"int32">>)>>
      [] name = "Basic"    -> <<Fld("Name", <<"string">>), Fld("Age", <<"int">>),
                                Fld("Height", <<"float64">>), Fld("IsAdult", <<"bool">>)>>
      [] name = "Msg"      -> <<Fld("Name", <<"string">>), Fld("Timestamp", <<"int64">>),
                                Fld("Payload", <<"slice", "uint8">>),
                                Fld("Ssid", <<"slice", "uint32">>)>>
      [] name = "Flags"    -> <<Fld("Bits", <<"slice", "bool">>),
                                Fld("Codes", <<"slice", "int16">>),
                                Fld("Ratio", <<"float32">>), Fld("ID", <<"uint16">>),
                                Fld("Secret", <<"string">>), Fld("_", <<"int8">>)>>
      [] name = "Outer"    -> <<Fld("Ptr", <<"ptr", "Inner">>),
                                Fld("Arr", <<"array", "int32">>),
                                Fld("Items", <<"slice", "Inner">>),
                                Fld("Ptrs", <<"slice", "ptr", "Inner">>)>>
      [] name = "Inner"    -> <<Fld("V", <<"int32">>)>>
      [] name = "Bad"      -> <<Fld("V", <<"int32">>), Fld("Ch", <<"chan">>)>>
      [] name = "NodeA"    -> <<Fld("V", <<"int32">>), Fld("Next", <<"ptr", "NodeB">>),
                                Fld("Kids", <<"slice", "NodeB">>)>>
      [] name = "NodeB"    -> <<Fld("Back", <<"ptr", "NodeA">>)>>
      [] name = "Pair"     -> <<Fld("First", <<"Inner">>), Fld("Second", <<"L8">>)>>
      [] name = "gen"      -> <<>>

\* StructField.Tag().Get("binary") of the i-th field (from 0) of a struct type
TagBinary(name, i) == IF name = "Flags" /\ i = 4 THEN "-" ELSE ""

\* Type.Kind()
Kind(t) ==
    IF Head(t) \in {"slice", "ptr", "array"} THEN Head(t)
    ELSE IF Head(t) \in StructNames \/ Head(t) = "gen" THEN "struct"
    ELSE Head(t)

\* the element type of a slice, array or pointer type
Elem(t) == Tail(t)

\* Type.StructID()
StructID(h, t) ==
    IF Head(t) = "gen" THEN 3000 + t[2]
    ELSE IF Kind(t) = "struct" THEN h[Head(t)]
    ELSE 0

----------------------------------------------------------------------------
(* register.go *)

RECURSIVE analyzeStruct(_, _, _, _, _)
RECURSIVE analyzeFields(_, _, _, _, _, _, _)

\* the search stops one entry short of the end
IsRegistered_SkipsLast(objs, id) == \E i \in 1..(Len(objs) - 1) : objs[i].stID = id

\* the search of analyzeStruct for an entry with this StructID
IsRegistered(objs, id) == \E i \in 1..Len(objs) : objs[i].stID = id

\* the check rejects the depth MaxDepth itself
exceedsDepth_OffByOne(depth, md) == depth >= md

\* there is no depth check
exceedsDepth_Never(depth, md) == FALSE

\* the depth check that opens analyzeStruct
exceedsDepth(depth, md) == depth > md

\* the new entry is put at the front
appendObject_AtFront(objs, stObj) == <<stObj>> \o objs

\* h.stObjects = append(h.stObjects, stObj)
appendObject(objs, stObj) == Append(objs, stObj)

\* What a call returns: the registry and the error, and a measure of the
\* recursion it took: deep is the largest depth analyzeStruct was called
\* with, calls the number of calls of analyzeStruct.
Returned(objs, e, deep, n) ==
    [objs |-> objs, err |-> e, deep |-> deep, calls |-> n]

\* the measure of a call and of the calls made before it
Measured(r, deep, n) ==
    [r EXCEPT !.deep = IF deep > r.deep THEN deep ELSE r.deep, !.calls = r.calls + n]

\* the field loop of analyzeStruct, from field i on; flds are the stFields so far
analyzeFields(h, md, objs, t, depth, i, flds) ==
    IF i > Len(Fields(Head(t)))
    THEN Returned(appendObject(objs, [stID |-> StructID(h, t), stFields |-> flds]),
                  "", depth, 1)
    ELSE LET f == Fields(Head(t))[i]
             stFld == [name |-> f.name, typeKind |-> Kind(f.typ)]
             r == IF Kind(f.typ) = "struct"
                  THEN analyzeStruct(h, md, objs, f.typ, depth + 1)
                  ELSE Returned(objs, "", 0, 0)
         IN IF r.err # "" THEN Measured(r, depth, 1)
            ELSE Measured(analyzeFields(h, md, r.objs, t, depth, i + 1,
                                        Append(flds, stFld)),
                          r.deep, r.calls)

analyzeStruct(h, md, objs, t, depth) ==
    IF exceedsDepth(depth, md) THEN Returned(objs, "MaxDepthExceeded", depth, 1)
    ELSE IF IsRegistered(objs, StructID(h, t)) THEN Returned(objs, "", depth, 1)
    ELSE analyzeFields(h, md, objs, t, depth, 1, <<>>)

RECURSIVE addStructs_RollsBack(_, _, _, _, _)
\* a call that fails gives back the registry it was given
addStructs_RollsBack(h, md, objs, ts, i) ==
    IF i > Len(ts) THEN Returned(objs, "", 0, 0)
    ELSE IF Kind(ts[i]) # "struct" THEN Returned(objs, "NotStruct", 0, 0)
    ELSE LET r == analyzeStruct(h, md, objs, ts[i], 1)
             rest == addStructs_RollsBack(h, md, r.objs, ts, i + 1)
         IN IF r.err # "" THEN [r EXCEPT !.objs = objs]
            ELSE IF rest.err # "" THEN Measured([rest EXCEPT !.objs = objs], r.deep, r.calls)
            ELSE Measured(rest, r.deep, r.calls)

RECURSIVE addStructs(_, _, _, _, _)
\* AddStructs: the loop over the arguments, from argument i on
addStructs(h, md, objs, ts, i) ==
    IF i > Len(ts) THEN Returned(objs, "", 0, 0)
    ELSE IF Kind(ts[i]) # "struct" THEN Returned(objs, "NotStruct", 0, 0)
    ELSE LET r == analyzeStruct(h, md, objs, ts[i], 1)
         IN IF r.err # "" THEN r
            ELSE Measured(addStructs(h, md, r.objs, ts, i + 1), r.deep, r.calls)

----------------------------------------------------------------------------
(* varint.go and the envelope encoder (EncodeToBytes and its helpers) *)

RECURSIVE encodeVarint(_)
\* LEB128 of an unsigned value
encodeVarint(x) ==
    IF x >= 128 THEN <<(x % 128) + 128>> \o encodeVarint(x \div 128)
    ELSE <<x>>

RECURSIVE PutLE(_, _)
\* binary.LittleEndian.PutUintN of a value converted to the unsigned type of
\* w bytes (floor division keeps the two's complement of a negative value)
PutLE(v, w) == IF w = 0 THEN <<>> ELSE <<v % 256>> \o PutLE(v \div 256, w - 1)

\* bytes of the fixed-width integer kinds
Width(k) ==
    CASE k \in {"int8", "uint8"} -> 1
      [] k \in {"int16", "uint16"} -> 2
      [] k \in {"int32", "uint32"} -> 4
      [] k \in {"int64", "uint64"} -> 8

IntKinds == {"int8", "uint8", "int16", "uint16", "int32", "uint32", "int64", "uint64"}

Val(t, v) == [typ |-> t, val |-> v]

NoWire == [data |-> <<>>, id |-> 0, typ |-> <<"none">>, val |-> <<>>]
NoDest == Val(<<"none">>, <<>>)
NoArg == Val(<<"none">>, <<>>)

Ok(b) == [b |-> b, err |-> ""]
Fail(e) == [b |-> <<>>, err |-> e]

RECURSIVE encodeValue(_, _)
RECURSIVE encodeField(_, _)
RECURSIVE encodeStruct(_, _, _)
RECURSIVE encodeSlice(_, _, _)

\* encodeStruct: the fields from field i on
encodeStruct(t, v, i) ==
    IF i > Len(Fields(Head(t))) THEN Ok(<<>>)
    ELSE LET r == encodeField(Fields(Head(t))[i].typ, v[i])
         IN IF r.err # "" THEN r
            ELSE LET rest == encodeStruct(t, v, i + 1)
                 IN IF rest.err # "" THEN rest ELSE Ok(r.b \o rest.b)

\* encodeSlice: the elements from element i on; no length is written
encodeSlice(t, v, i) ==
    IF i > Len(v) THEN Ok(<<>>)
    ELSE LET r == encodeValue(Elem(t), v[i])
         IN IF r.err # "" THEN Fail("EncodingSliceElement")
            ELSE LET rest == encodeSlice(t, v, i + 1)
                 IN IF rest.err # "" THEN rest ELSE Ok(r.b \o rest.b)

encodeField(t, v) ==
    CASE Kind(t) = "bool" -> Ok(IF v THEN <<1>> ELSE <<0>>)
      [] Kind(t) \in IntKinds -> Ok(PutLE(v, Width(Kind(t))))
      [] Kind(t) = "string" -> Ok(encodeVarint(Len(v)) \o v)
      [] Kind(t) = "struct" -> encodeStruct(t, v, 1)
      [] Kind(t) = "slice" -> encodeSlice(t, v, 1)
      [] OTHER -> Fail("UnsupportedType")

encodeValue(t, v) ==
    CASE Kind(t) = "struct" -> encodeStruct(t, v, 1)
      [] Kind(t) = "slice" -> encodeSlice(t, v, 1)
      [] OTHER -> encodeField(t, v)

\* the empty slice is let through with count 0
analyzeDataType_NoEmptyCheck(t, v) ==
    IF Kind(t) = "struct" THEN [typ |-> t, count |-> 1, err |-> ""]
    ELSE IF Kind(t) = "slice"
    THEN IF Kind(Elem(t)) # "struct"
         THEN [typ |-> <<"none">>, count |-> 0, err |-> "ElementNotStruct"]
         ELSE [typ |-> Elem(t), count |-> Len(v), err |-> ""]
    ELSE [typ |-> <<"none">>, count |-> 0, err |-> "NotSupported"]

\* analyzeDataType: the struct type and the count of the input
analyzeDataType(t, v) ==
    IF Kind(t) = "struct" THEN [typ |-> t, count |-> 1, err |-> ""]
    ELSE IF Kind(t) = "slice"
    THEN IF Len(v) = 0 THEN [typ |-> <<"none">>, count |-> 0, err |-> "SliceEmpty"]
         ELSE IF Kind(Elem(t)) # "struct"
         THEN [typ |-> <<"none">>, count |-> 0, err |-> "ElementNotStruct"]
         ELSE [typ |-> Elem(t), count |-> Len(v), err |-> ""]
    ELSE [typ |-> <<"none">>, count |-> 0, err |-> "NotSupported"]

\* the stID of the first registry entry with this StructID
FindTypeID(objs, id) ==
    LET i == CHOOSE i \in 1..Len(objs) :
                 objs[i].stID = id /\ \A j \in 1..(i - 1) : objs[j].stID # id
    IN objs[i].stID

\* EncodeToBytes: the bytes, the type id and the error
encodeToBytes(h, objs, t, v) ==
    LET a == analyzeDataType(t, v)
    IN IF a.err # "" THEN [b |-> <<>>, id |-> 0, err |-> a.err]
       ELSE IF ~IsRegistered(objs, StructID(h, a.typ))
       THEN [b |-> <<>>, id |-> 0, err |-> "TypeNotFound"]
       ELSE LET typeID == FindTypeID(objs, StructID(h, a.typ))
                hdr == <<1, 0>> \o PutLE(typeID, 4) \o encodeVarint(a.count)
                d == encodeValue(t, v)
            IN IF d.err # "" THEN [b |-> <<>>, id |-> 0, err |-> d.err]
               ELSE [b |-> hdr \o d.b, id |-> typeID, err |-> ""]

----------------------------------------------------------------------------
(* varint.go: decodeVarint. A uint32 is kept as [hi, lo], its value being     *)
(* hi * 2^28 + lo with lo < 2^28 and hi < 16, so that the 32-bit shifts wrap   *)
(* as they do in Go.                                                           *)

U32(hi, lo) == [hi |-> hi, lo |-> lo]

Pow128(i) == CASE i = 0 -> 1 [] i = 1 -> 128 [] i = 2 -> 16384 [] i = 3 -> 2097152

\* x | uint32(g) << (7 * i) for a 7-bit group g whose bits of x are still clear
OrGroup(x, g, i) ==
    IF i < 4 THEN U32(x.hi, x.lo + g * Pow128(i))
    ELSE IF i = 4 THEN U32(g % 16, x.lo)
    ELSE x

RECURSIVE decodeVarintFrom(_, _, _)
\* the loop of decodeVarint at index i (0-based), x being the value so far
decodeVarintFrom(buf, i, x) ==
    IF i >= Len(buf) THEN [x |-> U32(0, 0), n |-> 0, err |-> "VarintTruncated"]
    ELSE IF i = 5 THEN [x |-> U32(0, 0), n |-> 0, err |-> "VarintOverflow"]
    ELSE IF buf[i + 1] < 128
    THEN [x |-> OrGroup(x, buf[i + 1], i), n |-> i + 1, err |-> ""]
    ELSE decodeVarintFrom(buf, i + 1, OrGroup(x, buf[i + 1] % 128, i))

\* an empty buffer is taken for the value 0
decodeVarint_EmptyIsZero(buf) ==
    IF Len(buf) = 0 THEN [x |-> U32(0, 0), n |-> 0, err |-> ""]
    ELSE decodeVarintFrom(buf, 0, U32(0, 0))

decodeVarint(buf) == decodeVarintFrom(buf, 0, U32(0, 0))

(* decodeVarint64. A uint64 is kept as [hi, mid, lo], its value being         *)
(* hi * 2^56 + mid * 2^28 + lo with lo, mid < 2^28 and hi < 2^8.               *)

U64(hi, mid, lo) == [hi |-> hi, mid |-> mid, lo |-> lo]

\* x | uint64(g) << (7 * i) for a 7-bit group g whose bits of x are still clear
OrGroup64(x, g, i) ==
    IF i < 4 THEN U64(x.hi, x.mid, x.lo + g * Pow128(i))
    ELSE IF i < 8 THEN U64(x.hi, x.mid + g * Pow128(i - 4), x.lo)
    ELSE IF i = 8 THEN U64(x.hi + g, x.mid, x.lo)
    ELSE IF i = 9 THEN U64(x.hi + (g % 2) * 128, x.mid, x.lo)
    ELSE x

RECURSIVE decodeVarint64From(_, _, _)
\* the loop of decodeVarint64 at index i (0-based), x being the value so far
decodeVarint64From(buf, i, x) ==
    IF i >= Len(buf) THEN [x |-> U64(0, 0, 0), n |-> 0, err |-> "VarintTruncated"]
    ELSE IF i = 10 THEN [x |-> U64(0, 0, 0), n |-> 0, err |-> "VarintOverflow"]
    ELSE IF buf[i + 1] < 128
    THEN [x |-> OrGroup64(x, buf[i + 1], i), n |-> i + 1, err |-> ""]
    ELSE decodeVarint64From(buf, i + 1, OrGroup64(x, buf[i + 1] % 128, i))

decodeVarint64(buf) == decodeVarint64From(buf, 0, U64(0, 0, 0))

(* encodeVarint and encodeVarint64 of a value kept in limbs *)

\* x >>= 7
Shr7(x) ==
    U64(x.hi \div 128, (x.mid \div 128) + (x.hi % 128) * Pow128(3),
        (x.lo \div 128) + (x.mid % 128) * Pow128(3))

RECURSIVE encodeVarint64_OffByOne(_)
\* the loop goes on for x > 0x80, not for x >= 0x80
encodeVarint64_OffByOne(x) ==
    IF x.hi > 0 \/ x.mid > 0 \/ x.lo > 128
    THEN <<(x.lo % 128) + 128>> \o encodeVarint64_OffByOne(Shr7(x))
    ELSE <<x.lo % 256>>

RECURSIVE encodeVarint64(_)
\* for x >= 0x80 { buf = append(buf, byte(x)|0x80); x >>= 7 }; append(buf, byte(x))
encodeVarint64(x) ==
    IF x.hi > 0 \/ x.mid > 0 \/ x.lo >= 128
    THEN <<(x.lo % 128) + 128>> \o encodeVarint64(Shr7(x))
    ELSE <<x.lo>>

\* encodeVarint of the uint32 [hi, lo]: the same loop on 32 bits
encodeVarint32(x) == encodeVarint64(U64(0, x.hi, x.lo))

----------------------------------------------------------------------------
(* decoder.go: DecodeFromBytes *)

\* data[offset:]
From(data, offset) == SubSeq(data, offset + 1, Len(data))

\* any entry of the registry is taken for the one looked for
FindStObject_NonEmpty(objs, idBytes) == Len(objs) > 0

\* the registry has an entry whose stID is the uint32 of these four bytes
FindStObject(objs, idBytes) == \E i \in 1..Len(objs) : PutLE(objs[i].stID, 4) = idBytes

\* decodeStructValue: nothing is decoded, the call fails
decodeStructValue(data, d) == [dest |-> d, err |-> "StructDecodingNotSupported"]

\* decodeSliceValue: nothing is decoded, the call succeeds
decodeSliceValue(data, d, count) == [dest |-> d, err |-> ""]

\* the result of the header parse: the error, the count, the offset of the
\* payload and the indexes of data it read
Header(e, c, off, rd) == [err |-> e, count |-> c, offset |-> off, reads |-> rd]

\* the check skips the last byte of the type id
lacksTypeID_OffByOne(data, offset) == Len(data) < offset + 3

\* if len(data) < offset+4
lacksTypeID(data, offset) == Len(data) < offset + 4

\* the bytes of buf the loop of decodeVarint looked at, c being its result
bytesSeen(buf, c) ==
    IF c.err = "" THEN c.n ELSE IF c.err = "VarintOverflow" THEN 6 ELSE Len(buf)

\* the header parse DecodeFromBytes and DecodeToNew open with: the version,
\* the type id, the registry lookup, the count.  An index at or beyond
\* len(data) is a run-time panic.
parseHeader(objs, data) ==
    IF Len(data) < 5 THEN Header("InvalidProtocol", U32(0, 0), 0, {})
    ELSE IF data[1] # 1 \/ data[2] # 0 THEN Header("InvalidVersion", U32(0, 0), 2, 0..1)
    ELSE IF lacksTypeID(data, 2) THEN Header("InvalidProtocol", U32(0, 0), 2, 0..1)
    ELSE IF Len(data) < 6 THEN Header("IndexOutOfRange", U32(0, 0), 2, 0..5)
    ELSE IF ~FindStObject(objs, SubSeq(data, 3, 6))
    THEN Header("TypeNotFound", U32(0, 0), 6, 0..5)
    ELSE LET c == decodeVarint(From(data, 6))
         IN Header(c.err, c.x, 6 + c.n, 0..(5 + bytesSeen(From(data, 6), c)))

\* DecodeFromBytes: the destination after the call, the error and the
\* indexes of data the header parse read
decodeFromBytes(objs, data, d) ==
    LET hd == parseHeader(objs, data)
        r == IF hd.err # "" THEN [dest |-> d, err |-> hd.err]
             ELSE IF Kind(d.typ) # "ptr" THEN [dest |-> d, err |-> "MustBePointer"]
             ELSE IF hd.count = U32(0, 1) /\ Kind(Elem(d.typ)) = "struct"
             THEN decodeStructValue(From(data, hd.offset), d)
             ELSE IF hd.count # U32(0, 0) /\ hd.count # U32(0, 1)
                     /\ Kind(Elem(d.typ)) = "slice"
             THEN decodeSliceValue(From(data, hd.offset), d, hd.count)
             ELSE [dest |-> d, err |-> "CountDestinationMismatch"]
    IN [dest |-> r.dest, err |-> r.err, reads |-> hd.reads]

\* DecodeToNew: a placeholder for the parsed message (its count and whether
\* it is a slice), the type id and the error
decodeToNew(objs, data) ==
    LET hd == parseHeader(objs, data)
    IN IF hd.err # ""
       THEN [dest |-> NoDest, id |-> <<>>, err |-> hd.err, reads |-> hd.reads]
       ELSE [dest |-> Val(<<"parsed">>,
                          <<hd.count.hi, hd.count.lo, hd.count # U32(0, 1)>>),
             id |-> SubSeq(data, 3, 6), err |-> "", reads |-> hd.reads]

----------------------------------------------------------------------------
(* The values the calls are given *)

\* "Alice"
Alice == <<65, 108, 105, 99, 101>>

\* Person{Name: "Alice", Age: 30} and Person{Name: "", Age: -1}
Persons == {<<Alice, 30>>, <<<<>>, -1>>}

SeqsUpTo(S, n) == UNION {[1..k -> S] : k \in 0..n}

RECURSIVE Zero(_)
RECURSIVE ZeroFields(_, _)
ZeroFields(name, i) ==
    IF i > Len(Fields(name)) THEN <<>>
    ELSE <<Zero(Fields(name)[i].typ)>> \o ZeroFields(name, i + 1)

\* the zero value of a type
Zero(t) ==
    CASE Kind(t) = "struct" -> ZeroFields(Head(t), 1)
      [] Kind(t) = "bool" -> FALSE
      [] Kind(t) \in IntKinds \cup {"int", "uint"} -> 0
      [] Kind(t) = "float32" -> <<0, 0, 0, 0>>
      [] Kind(t) = "float64" -> <<0, 0, 0, 0, 0, 0, 0, 0>>
      [] Kind(t) = "array" -> [i \in 1..ArrayLen |-> Zero(Elem(t))]
      [] OTHER -> <<>>

\* what EncodeToBytes is given
EncInputs ==
    {Val(<<"Person">>, p) : p \in Persons}
    \cup {Val(<<"Company">>, <<<<67>>, s>>) : s \in SeqsUpTo(Persons, 1)}
    \cup {Val(<<"slice", "Person">>, s) : s \in SeqsUpTo(Persons, MaxSliceLen)}
    \cup {Val(<<"slice", "int32">>, <<30>>), Val(<<"ptr", "Person">>, <<Zero(<<"Person">>)>>)}

\* what DecodeFromBytes is given as its destination: pointers to zero values,
\* and a struct passed by value
DestTypes ==
    {<<"ptr", "Person">>, <<"ptr", "slice", "Person">>, <<"ptr", "int32">>, <<"Person">>}

NewDest(t) == Val(t, IF Kind(t) = "ptr" THEN <<Zero(Elem(t))>> ELSE Zero(t))

\* what AddStructs is given: values of these types
EnvArgTypes == {<<n>> : n \in EnvStructs} \cup {<<"int32">>}

\* The StructIDs tinyreflect reports are fixed for a process and distinct for
\* distinct types; nothing else is known of them.
HashTables ==
    {[n \in StructNames |->
        CASE n = "Person" -> g[1] [] n = "Company" -> g[2]
          [] n \in ChainSet -> 1000 + ChainIndex(n)
          [] n = "NodeA" -> 1501 [] n = "NodeB" -> 1502 [] n = "Pair" -> 1503
          [] OTHER -> 2000 + (CHOOSE i \in 1..Len(CodecNames) : CodecNames[i] = n)] :
     g \in {<<0, 1>>, <<258, 7>>}}

----------------------------------------------------------------------------
(* scanner.go: the codec of a type.  A codec is a record: c names the codec  *)
(* type, elemCodec holds the element codec of a wrapping codec, fields the    *)
(* fieldCodecs of a struct codec, elemType the element type of a             *)
(* reflectSliceOfPtrCodec.                                                    *)

SignedKinds == {"int", "int8", "int16", "int32", "int64"}
UnsignedKinds == {"uint", "uint8", "uint16", "uint32", "uint64"}

Leaf(c) == [c |-> c, elemCodec |-> <<>>, fields |-> <<>>, elemType |-> <<>>]

Wrapping(c, ec) == [c |-> c, elemCodec |-> <<ec>>, fields |-> <<>>, elemType |-> <<>>]

Scanned(c) == [codec |-> c, err |-> ""]

NotScanned(e) == [codec |-> Leaf("nil"), err |-> e]

\* scanStruct: the indexes (from 0) of the fields that are not named "_" and
\* not tagged binary:"-"
RECURSIVE scanStruct(_, _)
scanStruct(name, i) ==
    IF i >= Len(Fields(name)) THEN <<>>
    ELSE (IF Fields(name)[i + 1].name # "_" /\ TagBinary(name, i) # "-"
          THEN <<i>> ELSE <<>>) \o scanStruct(name, i + 1)

RECURSIVE scanType(_)
RECURSIVE scanFields(_, _, _, _)

\* the K.Struct case of scanType: one fieldCodec for each scanned field
scanFields(name, idx, k, v) ==
    IF k > Len(idx) THEN Scanned([Leaf("reflectStructCodec") EXCEPT !.fields = v])
    ELSE LET r == scanType(Fields(name)[idx[k] + 1].typ)
         IN IF r.err # "" THEN r
            ELSE scanFields(name, idx, k + 1,
                            Append(v, [Index |-> idx[k], Codec |-> r.codec]))

scanType(t) ==
    CASE Kind(t) = "ptr" ->
            LET r == scanType(Elem(t))
            IN IF r.err # "" THEN r ELSE Scanned(Wrapping("reflectPointerCodec", r.codec))
      [] Kind(t) = "array" ->
            LET r == scanType(Elem(t))
            IN IF r.err # "" THEN r ELSE Scanned(Wrapping("reflectArrayCodec", r.codec))
      [] Kind(t) = "slice" ->
            CASE Kind(Elem(t)) = "uint8" -> Scanned(Leaf("byteSliceCodec"))
              [] Kind(Elem(t)) = "bool" -> Scanned(Leaf("boolSliceCodec"))
              [] Kind(Elem(t)) \in {"uint", "uint16", "uint32", "uint64"} ->
                    Scanned(Leaf("varuintSliceCodec"))
              [] Kind(Elem(t)) \in SignedKinds -> Scanned(Leaf("varintSliceCodec"))
              [] Kind(Elem(t)) = "ptr" ->
                    LET r == scanType(Elem(Elem(t)))
                    IN IF r.err # "" THEN r
                       ELSE Scanned([Wrapping("reflectSliceOfPtrCodec", r.codec)
                                        EXCEPT !.elemType = Elem(Elem(t))])
              [] OTHER ->
                    LET r == scanType(Elem(t))
                    IN IF r.err # "" THEN r
                       ELSE Scanned(Wrapping("reflectSliceCodec", r.codec))
      [] Kind(t) = "struct" -> scanFields(Head(t), scanStruct(Head(t), 0), 1, <<>>)
      [] Kind(t) = "string" -> Scanned(Leaf("stringCodec"))
      [] Kind(t) = "bool" -> Scanned(Leaf("boolCodec"))
      [] Kind(t) \in SignedKinds -> Scanned(Leaf("varintCodec"))
      [] Kind(t) \in UnsignedKinds -> Scanned(Leaf("varuintCodec"))
      [] Kind(t) = "float32" -> Scanned(Leaf("float32Codec"))
      [] Kind(t) = "float64" -> Scanned(Leaf("float64Codec"))
      [] OTHER -> NotScanned("NotSupported")

----------------------------------------------------------------------------
(* The codec cache of the engine *)

\* the cache drops its oldest entry when it holds this many
SchemaLimit == 1000

findSchema(sch, typeID) ==
    IF \E i \in 1..Len(sch) : sch[i].TypeID = typeID
    THEN [found |-> TRUE,
          codec |-> sch[CHOOSE i \in 1..Len(sch) :
                          /\ sch[i].TypeID = typeID
                          /\ \A j \in 1..(i - 1) : sch[j].TypeID # typeID].Codec]
    ELSE [found |-> FALSE, codec |-> Leaf("nil")]

addSchema(sch, typeID, codec) ==
    Append(IF Len(sch) >= SchemaLimit THEN Tail(sch) ELSE sch,
           [TypeID |-> typeID, Codec |-> codec])

\* an entry is stored for a type whose scan failed, too
scanToCache_StoresFailed(h, sch, t) ==
    LET typeID == StructID(h, t)
        hit == findSchema(sch, typeID)
        r == scanType(t)
    IN IF hit.found THEN [codec |-> hit.codec, err |-> "", schemas |-> sch]
       ELSE [codec |-> r.codec, err |-> r.err, schemas |-> addSchema(sch, typeID, r.codec)]

\* the codec of type t, and the cache after the call
scanToCache(h, sch, t) ==
    LET typeID == StructID(h, t)
        hit == findSchema(sch, typeID)
        r == scanType(t)
    IN IF hit.found THEN [codec |-> hit.codec, err |-> "", schemas |-> sch]
       ELSE IF r.err # "" THEN [codec |-> r.codec, err |-> r.err, schemas |-> sch]
       ELSE [codec |-> r.codec, err |-> "", schemas |-> addSchema(sch, typeID, r.codec)]

----------------------------------------------------------------------------
(* The Encoder and its sink: e is [out |-> the bytes the sink took,           *)
(* err |-> Encoder.err, left |-> the writes the sink still takes before it   *)
(* fails (Healthy: it takes every write, as a bytes.Buffer does),            *)
(* tries |-> the calls of out.Write made].                                    *)

Healthy == -1

NewEncoder == [out |-> <<>>, err |-> "", left |-> Healthy, tries |-> 0]

\* e.out.Write(p): a sink that fails takes nothing of p
sinkWrite(e, p) ==
    IF e.left = 0 THEN [e EXCEPT !.err = "SinkError", !.tries = e.tries + 1]
    ELSE [e EXCEPT !.out = e.out \o p, !.tries = e.tries + 1,
                   !.left = IF e.left > 0 THEN e.left - 1 ELSE e.left]

\* every write goes to the sink, whatever e.err holds; the first error is kept
Write_NotSticky(e, p) ==
    IF e.err = "" THEN sinkWrite(e, p) ELSE [sinkWrite(e, p) EXCEPT !.err = e.err]

\* Write: nothing reaches the sink once a write has failed
Write(e, p) == IF e.err = "" THEN sinkWrite(e, p) ELSE e

\* Reset leaves e.err as the last call left it
Reset_KeepsErr(e, left) == [e EXCEPT !.out = <<>>, !.left = left, !.tries = 0]

\* Reset(out, tb): e.out = out; e.err = nil
Reset(e, left) == [e EXCEPT !.out = <<>>, !.err = "", !.left = left, !.tries = 0]

RECURSIVE PutUvarint(_)
\* the loop of WriteUvarint and WriteVarint: seven bits a byte, low bits first
PutUvarint(x) ==
    IF x >= 128 THEN <<(x % 128) + 128>> \o PutUvarint(x \div 128) ELSE <<x>>

WriteUvarint(e, x) == Write(e, PutUvarint(x))

\* x := uint64(v) << 1; if v < 0 { x = ^x }
ZigZag(v) == IF v < 0 THEN (-2 * v) - 1 ELSE 2 * v

WriteVarint(e, v) == Write(e, PutUvarint(ZigZag(v)))

writeBool(e, v) == Write(e, <<IF v THEN 1 ELSE 0>>)

WriteString(e, v) == Write(WriteUvarint(e, Len(v)), v)

\* A float is held as its IEEE-754 bit pattern, least significant byte
\* first: Float32bits / Float64bits, then WriteUint32 / WriteUint64
WriteFloat32(e, v) == Write(e, SubSeq(v, 1, 4))

WriteFloat64(e, v) == Write(e, SubSeq(v, 1, 8))

----------------------------------------------------------------------------
(* codecs.go: EncodeTo.  The value handed to a codec is of the type the     *)
(* codec was scanned from, so tinyreflect's accessors do not fail.           *)

RECURSIVE EncodeTo(_, _, _)
RECURSIVE encodeElems(_, _, _, _)
RECURSIVE encodePtrElems(_, _, _, _)
RECURSIVE encodeFields(_, _, _, _)
RECURSIVE writeVarints(_, _, _)
RECURSIVE writeUvarints(_, _, _)

\* the element loop of reflectArrayCodec and reflectSliceCodec
encodeElems(ec, e, rv, i) ==
    IF i > Len(rv) THEN e ELSE encodeElems(ec, EncodeTo(ec, e, rv[i]), rv, i + 1)

\* the element loop of reflectSliceOfPtrCodec
encodePtrElems(ec, e, rv, i) ==
    IF i > Len(rv) THEN e
    ELSE encodePtrElems(ec,
                        IF Len(rv[i]) = 0 THEN writeBool(e, TRUE)
                        ELSE EncodeTo(ec, writeBool(e, FALSE), rv[i][1]),
                        rv, i + 1)

\* the field loop of reflectStructCodec
encodeFields(fs, e, rv, k) ==
    IF k > Len(fs) THEN e
    ELSE encodeFields(fs, EncodeTo(fs[k].Codec, e, rv[fs[k].Index + 1]), rv, k + 1)

writeVarints(e, rv, i) ==
    IF i > Len(rv) THEN e ELSE writeVarints(WriteVarint(e, rv[i]), rv, i + 1)

writeUvarints(e, rv, i) ==
    IF i > Len(rv) THEN e ELSE writeUvarints(WriteUvarint(e, rv[i]), rv, i + 1)

\* boolSliceCodec.EncodeTo: the length, then a zeroed buffer of that length
boolSliceEncodeTo(e, rv) ==
    IF Len(rv) > 0
    THEN Write(WriteUvarint(e, Len(rv)), [i \in 1..Len(rv) |-> 0])
    ELSE WriteUvarint(e, Len(rv))

\* byteSliceCodec.EncodeTo
byteSliceEncodeTo(e, rv) ==
    IF Len(rv) > 0
    THEN Write(WriteUvarint(e, Len(rv)), [i \in 1..Len(rv) |-> rv[i] % 256])
    ELSE WriteUvarint(e, Len(rv))

EncodeTo(c, e, rv) ==
    CASE c.c = "reflectArrayCodec" -> encodeElems(c.elemCodec[1], e, rv, 1)
      [] c.c = "reflectSliceCodec" ->
            encodeElems(c.elemCodec[1], WriteUvarint(e, Len(rv)), rv, 1)
      [] c.c = "reflectSliceOfPtrCodec" ->
            encodePtrElems(c.elemCodec[1], WriteUvarint(e, Len(rv)), rv, 1)
      [] c.c = "byteSliceCodec" -> byteSliceEncodeTo(e, rv)
      [] c.c = "boolSliceCodec" -> boolSliceEncodeTo(e, rv)
      [] c.c = "varintSliceCodec" -> writeVarints(WriteUvarint(e, Len(rv)), rv, 1)
      [] c.c = "varuintSliceCodec" -> writeUvarints(WriteUvarint(e, Len(rv)), rv, 1)
      [] c.c = "reflectPointerCodec" ->
            IF Len(rv) = 0 THEN writeBool(e, TRUE)
            ELSE EncodeTo(c.elemCodec[1], writeBool(e, FALSE), rv[1])
      [] c.c = "reflectStructCodec" -> encodeFields(c.fields, e, rv, 1)
      [] c.c = "stringCodec" -> WriteString(e, rv)
      [] c.c = "boolCodec" -> writeBool(e, rv)
      [] c.c = "varintCodec" -> WriteVarint(e, rv)
      [] c.c = "varuintCodec" -> WriteUvarint(e, rv)
      [] c.c = "float32Codec" -> WriteFloat32(e, rv)
      [] c.c = "float64Codec" -> WriteFloat64(e, rv)

\* Encoder.Encode and TinyBin.Encode: data is the value after Indirect, of
\* type <<"nil">> when there is none
encode(h, sch, data) ==
    IF data.typ = <<"nil">> THEN [b |-> <<>>, err |-> "NilValue", schemas |-> sch]
    ELSE LET s == scanToCache(h, sch, data.typ)
             e == EncodeTo(s.codec, NewEncoder, data.val)
         IN IF s.err # "" THEN [b |-> <<>>, err |-> s.err, schemas |-> s.schemas]
            ELSE IF e.err # "" THEN [b |-> <<>>, err |-> e.err, schemas |-> s.schemas]
            ELSE [b |-> e.out, err |-> "", schemas |-> s.schemas]

\* Encoder.Encode on the encoder e0 that EncodeTo has reset onto its sink
encoderEncode(h, sch, data, e0) ==
    IF data.typ = <<"nil">> THEN [e |-> e0, err |-> "NilValue", schemas |-> sch]
    ELSE LET s == scanToCache(h, sch, data.typ)
             e == EncodeTo(s.codec, e0, data.val)
         IN IF s.err # "" THEN [e |-> e0, err |-> s.err, schemas |-> s.schemas]
            ELSE [e |-> e, err |-> e.err, schemas |-> s.schemas]

----------------------------------------------------------------------------
(* The Decoder's reader over a byte slice: d is [buf, pos].  Each read gives *)
(* the reader after it, the value read and the error.                         *)

NewReader(b) == [buf |-> b, pos |-> 0]

Got(d, v) == [d |-> d, v |-> v, err |-> ""]

ReadByte(d) ==
    IF d.pos < Len(d.buf) THEN Got([d EXCEPT !.pos = d.pos + 1], d.buf[d.pos + 1])
    ELSE [d |-> d, v |-> 0, err |-> "EOF"]

Read(d, n) ==
    IF d.pos + n <= Len(d.buf)
    THEN Got([d EXCEPT !.pos = d.pos + n], SubSeq(d.buf, d.pos + 1, d.pos + n))
    ELSE [d |-> [d EXCEPT !.pos = Len(d.buf)], v |-> <<>>, err |-> "EOF"]

RECURSIVE readUvarintFrom(_, _, _)
readUvarintFrom(d, i, x) ==
    LET r == ReadByte(d)
    IN IF i = 10 THEN [d |-> d, v |-> 0, err |-> "VarintOverflow"]
       ELSE IF r.err # "" THEN [d |-> r.d, v |-> 0, err |-> r.err]
       ELSE IF r.v < 128 THEN Got(r.d, x + r.v * Pow128(i))
       ELSE readUvarintFrom(r.d, i + 1, x + (r.v % 128) * Pow128(i))

ReadUvarint(d) == readUvarintFrom(d, 0, 0)

\* the inverse of the zigzag fold
ReadVarint(d) ==
    LET r == ReadUvarint(d)
    IN [r EXCEPT !.v = IF r.v % 2 = 0 THEN r.v \div 2 ELSE -((r.v + 1) \div 2)]

ReadBool(d) == LET r == ReadByte(d) IN [r EXCEPT !.v = (r.v = 1)]

ReadString(d) ==
    LET l == ReadUvarint(d)
    IN IF l.err # "" THEN [d |-> l.d, v |-> <<>>, err |-> l.err] ELSE Read(l.d, l.v)

ReadFloat32(d) == Read(d, 4)

ReadFloat64(d) == Read(d, 8)

----------------------------------------------------------------------------
(* codecs.go: DecodeTo.  rv is the destination as the codec finds it; the   *)
(* result is the reader, the destination and the error after the call.       *)

Done(d, rv) == [d |-> d, rv |-> rv, err |-> ""]

Failed(d, rv, e) == [d |-> d, rv |-> rv, err |-> e]

\* Value.SetInt and Value.SetUint store into the width of the kind
SetInt(k, v) ==
    CASE k = "int8" -> ((v + 128) % 256) - 128
      [] k = "int16" -> ((v + 32768) % 65536) - 32768
      [] OTHER -> v

SetUint(k, v) ==
    CASE k = "uint8" -> v % 256
      [] k = "uint16" -> v % 65536
      [] OTHER -> v

\* tinyreflect.MakeSlice(typ, l, l)
MakeSlice(t, l) == [i \in 1..l |-> Zero(Elem(t))]

RECURSIVE DecodeTo(_, _, _, _)
RECURSIVE decodeElems(_, _, _, _, _)
RECURSIVE decodePtrElems(_, _, _, _)
RECURSIVE decodeFields(_, _, _, _, _)
RECURSIVE readVarints(_, _, _, _)
RECURSIVE readUvarints(_, _, _, _)

\* the element loop of reflectArrayCodec and reflectSliceCodec
decodeElems(ec, d, et, rv, i) ==
    IF i > Len(rv) THEN Done(d, rv)
    ELSE LET r == DecodeTo(ec, d, et, rv[i])
         IN IF r.err # "" THEN Failed(r.d, [rv EXCEPT ![i] = r.rv], r.err)
            ELSE decodeElems(ec, r.d, et, [rv EXCEPT ![i] = r.rv], i + 1)

\* the element loop of reflectSliceOfPtrCodec: a failed ReadBool gives
\* isNil = false, and the error is returned
decodePtrElems(c, d, rv, i) ==
    IF i > Len(rv) THEN Done(d, rv)
    ELSE LET b == ReadBool(d)
             r == DecodeTo(c.elemCodec[1], b.d, c.elemType, Zero(c.elemType))
         IN IF b.v THEN decodePtrElems(c, b.d, rv, i + 1)
            ELSE IF b.err # "" THEN Failed(b.d, rv, b.err)
            ELSE IF r.err # "" THEN Failed(r.d, rv, r.err)
            ELSE decodePtrElems(c, r.d, [rv EXCEPT ![i] = <<r.rv>>], i + 1)

\* the field loop of reflectStructCodec
decodeFields(fs, d, name, rv, k) ==
    IF k > Len(fs) THEN Done(d, rv)
    ELSE LET ix == fs[k].Index + 1
             r == DecodeTo(fs[k].Codec, d, Fields(name)[ix].typ, rv[ix])
         IN IF r.err # "" THEN Failed(r.d, [rv EXCEPT ![ix] = r.rv], r.err)
            ELSE decodeFields(fs, r.d, name, [rv EXCEPT ![ix] = r.rv], k + 1)

\* the element loop of varintSliceCodec: an element that cannot be read is
\* left as it is and the loop goes on
readVarints(d, k, rv, i) ==
    IF i > Len(rv) THEN Done(d, rv)
    ELSE LET r == ReadVarint(d)
         IN IF r.err = "" THEN readVarints(r.d, k, [rv EXCEPT ![i] = SetInt(k, r.v)], i + 1)
            ELSE readVarints(r.d, k, rv, i + 1)

\* the element loop of varuintSliceCodec
readUvarints(d, k, rv, i) ==
    IF i > Len(rv) THEN Done(d, rv)
    ELSE LET r == ReadUvarint(d)
         IN IF r.err = "" THEN readUvarints(r.d, k, [rv EXCEPT ![i] = SetUint(k, r.v)], i + 1)
            ELSE readUvarints(r.d, k, rv, i + 1)

\* byteSliceCodec.DecodeTo, once the length l > 0 is read
byteSliceDecodeTo(d, rv, l) ==
    LET r == Read(d, l)
    IN IF r.err = "" THEN Done(r.d, [i \in 1..l |-> SetUint("uint8", r.v[i])])
       ELSE Done(r.d, rv)

\* boolSliceCodec.DecodeTo, once the length l > 0 is read: the bytes are
\* read and a fresh make([]bool, l) is stored
boolSliceDecodeTo(d, rv, l) ==
    LET r == Read(d, l)
    IN IF r.err # "" THEN Failed(r.d, rv, r.err)
       ELSE Done(r.d, [i \in 1..l |-> FALSE])

\* the slice codecs: the length is read; an unread or zero length leaves the
\* destination as it is and returns nil
sliceDecodeTo(c, d, t, rv) ==
    LET l == ReadUvarint(d)
    IN IF ~(l.err = "" /\ l.v > 0) THEN Done(l.d, rv)
       ELSE CASE c.c = "reflectSliceCodec" ->
                    decodeElems(c.elemCodec[1], l.d, Elem(t), MakeSlice(t, l.v), 1)
              [] c.c = "reflectSliceOfPtrCodec" ->
                    decodePtrElems(c, l.d, MakeSlice(t, l.v), 1)
              [] c.c = "byteSliceCodec" -> byteSliceDecodeTo(l.d, rv, l.v)
              [] c.c = "boolSliceCodec" -> boolSliceDecodeTo(l.d, rv, l.v)
              [] c.c = "varintSliceCodec" ->
                    readVarints(l.d, Kind(Elem(t)), MakeSlice(t, l.v), 1)
              [] c.c = "varuintSliceCodec" ->
                    readUvarints(l.d, Kind(Elem(t)), MakeSlice(t, l.v), 1)

\* reflectPointerCodec.DecodeTo
pointerDecodeTo(c, d, t, rv) ==
    LET b == ReadBool(d)
        r == DecodeTo(c.elemCodec[1], b.d, Elem(t),
                      IF Len(rv) = 0 THEN Zero(Elem(t)) ELSE rv[1])
    IN IF b.err # "" THEN Failed(b.d, rv, b.err)
       ELSE IF b.v THEN Done(b.d, rv)
       ELSE [r EXCEPT !.rv = <<r.rv>>]

\* the leaf codecs that return nil when the read fails
leafDecodeTo(r, rv) == IF r.err = "" THEN Done(r.d, r.v) ELSE Done(r.d, rv)

DecodeTo(c, d, t, rv) ==
    CASE c.c = "reflectArrayCodec" -> decodeElems(c.elemCodec[1], d, Elem(t), rv, 1)
      [] c.c \in {"reflectSliceCodec", "reflectSliceOfPtrCodec", "byteSliceCodec",
                  "boolSliceCodec", "varintSliceCodec", "varuintSliceCodec"} ->
            sliceDecodeTo(c, d, t, rv)
      [] c.c = "reflectPointerCodec" -> pointerDecodeTo(c, d, t, rv)
      [] c.c = "reflectStructCodec" -> decodeFields(c.fields, d, Head(t), rv, 1)
      [] c.c = "stringCodec" -> leafDecodeTo(ReadString(d), rv)
      [] c.c = "boolCodec" -> leafDecodeTo(ReadBool(d), rv)
      [] c.c = "varintCodec" ->
            LET r == ReadVarint(d)
            IN IF r.err # "" THEN Failed(r.d, rv, r.err)
               ELSE Done(r.d, SetInt(Kind(t), r.v))
      [] c.c = "varuintCodec" ->
            LET r == ReadUvarint(d)
            IN IF r.err # "" THEN Failed(r.d, rv, r.err)
               ELSE Done(r.d, SetUint(Kind(t), r.v))
      [] c.c = "float32Codec" -> leafDecodeTo(ReadFloat32(d), rv)
      [] c.c = "float64Codec" -> leafDecodeTo(ReadFloat64(d), rv)

\* Decoder.Decode and TinyBin.Decode: target is what the caller passes, a
\* pointer to the destination; the codec is the one of the pointed-to type
decode(h, sch, b, target) ==
    IF Kind(target.typ) # "ptr" \/ Len(target.val) = 0
    THEN [dest |-> target, err |-> "MustBePointer", schemas |-> sch]
    ELSE LET s == scanToCache(h, sch, Elem(target.typ))
             r == DecodeTo(s.codec, NewReader(b), Elem(target.typ), target.val[1])
         IN IF s.err # "" THEN [dest |-> target, err |-> s.err, schemas |-> s.schemas]
            ELSE [dest |-> Val(target.typ, <<r.rv>>), err |-> r.err,
                  schemas |-> s.schemas]

----------------------------------------------------------------------------
(* What the codec engine is given *)

\* 0.0 and 1.75 as float64, 0.0 and 0.5 as float32
Float64s == {<<0, 0, 0, 0, 0, 0, 0, 0>>, <<0, 0, 0, 0, 0, 0, 252, 63>>}
Float32s == {<<0, 0, 0, 0>>, <<0, 0, 0, 63>>}

Inners == {<<1>>, <<-42>>}

CodecInputs ==
    {Val(<<"Basic">>, <<n, IF b THEN 300 ELSE -3, h, b>>) :
        n \in {<<>>, <<65, 108>>}, h \in Float64s, b \in BOOLEAN}
    \cup {Val(<<"Msg">>, <<<<104, 105>>, ts, p, s>>) :
            ts \in {0, -70000}, p \in {<<>>, <<104, 105>>}, s \in {<<>>, <<1, 300>>}}
    \cup {Val(<<"Flags">>, <<bs, cs, IF Len(cs) = 0 THEN <<0, 0, 0, 0>> ELSE <<0, 0, 0, 63>>,
                             IF Len(cs) = 0 THEN 0 ELSE 300, <<>>, 0>>) :
            bs \in SeqsUpTo(BOOLEAN, MaxCodecLen), cs \in {<<>>, <<-1, 200>>}}
    \cup {Val(<<"Outer">>, <<p, a, IF a[1] = 0 THEN <<>> ELSE <<<<1>>, <<-42>>>>, ps>>) :
            p \in {<<>>} \cup {<<x>> : x \in Inners},
            a \in {[i \in 1..ArrayLen |-> 0], [i \in 1..ArrayLen |-> i - 2]},
            ps \in {<<>>, << <<>>, << <<7>> >> >>}}
    \cup {Val(<<"nil">>, <<>>)}

----------------------------------------------------------------------------
(* The pools of an engine.  A pooled worker (an encoder or a decoder) is a  *)
(* number; a pool is the set of its idle workers and the count of the       *)
(* workers its New function has made; errs[w] is the err field worker w      *)
(* holds while it lies in the pool.                                           *)

NoPool == [idle |-> {}, made |-> 0, errs |-> <<>>]

\* New: tb.encoders = &sync.Pool{...}, tb.decoders = &sync.Pool{...}
NoPools == [encoders |-> NoPool, decoders |-> NoPool]

\* sync.Pool.Get: an idle worker, or one made by New when there is none
poolGet(p) ==
    IF p.idle # {}
    THEN LET w == CHOOSE w \in p.idle : TRUE
         IN [w |-> w, pool |-> [p EXCEPT !.idle = p.idle \ {w}]]
    ELSE [w |-> p.made + 1,
          pool |-> [p EXCEPT !.made = p.made + 1, !.errs = Append(p.errs, "")]]

\* the worker w goes back to the pool holding the err it ended with
holdErr(p, w, e) == [p EXCEPT !.errs[w] = e]

\* the worker is not put back
poolPut_Dropped(p, w) == p

\* sync.Pool.Put
poolPut(p, w) == [p EXCEPT !.idle = p.idle \cup {w}]

\* the goroutines that call into the engines
Goroutines == {"g1", "g2"}

\* a goroutine that is in no call
NoCall ==
    [pc |-> "idle", op |-> "", e |-> "client", data |-> NoArg, w |-> 0,
     codec |-> Leaf("nil"), snap |-> <<>>, err |-> "", b |-> <<>>]

----------------------------------------------------------------------------

\* the argument lists of AddStructs over a set of types
ArgLists(types) == UNION {[1..n -> types] : n \in 1..MaxArgs}

\* tinybin.go: New(cfg...). A Config pointer is <<>> (nil) or <<MaxDepth>>.
newMaxDepth(cfgs) ==
    IF Len(cfgs) = 0 \/ cfgs[1] = <<>> THEN DefaultMaxDepth ELSE cfgs[1][1]

\* what New is given
CfgArgs == {<<>>, << <<>> >>} \cup {<< <<n>> >> : n \in 0..MaxCfgDepth}

Start ==
    /\ stObjects = [e \in Engines |-> <<>>]
    /\ schemas = [e \in Engines |-> <<>>]
    /\ MaxDepth = [e \in Engines |-> newMaxDepth(cfg[e])]
    /\ before = <<>>
    /\ op = "new"
    /\ eng = "client"
    /\ arg = NoArg
    /\ err = ""
    /\ wire = NoWire
    /\ dest = NoDest
    /\ reads = {}
    /\ pools = [e \in Engines |-> NoPools]
    /\ calls = [g \in Goroutines |-> NoCall]

\* two engines made by New()
Init ==
    /\ typeHash \in HashTables
    /\ cfg = [e \in Engines |-> <<>>]
    /\ Start

AddStructs(e, ts) ==
    LET r == addStructs(typeHash, MaxDepth[e], stObjects[e], ts, 1)
    IN /\ stObjects' = [stObjects EXCEPT ![e] = r.objs]
       /\ before' = stObjects[e]
       /\ op' = "add"
       /\ eng' = e
       /\ arg' = Val(<<"structs">>, ts)
       /\ err' = r.err
       /\ wire' = NoWire
       /\ dest' = NoDest
       /\ reads' = {}
       /\ UNCHANGED <<typeHash, cfg, MaxDepth, schemas, pools, calls>>

EncodeToBytes(e, data) ==
    LET r == encodeToBytes(typeHash, stObjects[e], data.typ, data.val)
    IN /\ op' = "encode"
       /\ eng' = e
       /\ arg' = data
       /\ err' = r.err
       /\ wire' = [data |-> r.b, id |-> r.id, typ |-> data.typ, val |-> data.val]
       /\ dest' = NoDest
       /\ before' = stObjects[e]
       /\ reads' = {}
       /\ UNCHANGED <<typeHash, cfg, MaxDepth, stObjects, schemas, pools, calls>>

\* DecodeFromBytes of the message EncodeToBytes just returned, into a fresh
\* destination of type dt
DecodeFromBytes(e, dt) ==
    /\ op \in {"encode", "decode"}
    /\ wire.data # <<>>
    /\ LET r == decodeFromBytes(stObjects[e], wire.data, NewDest(dt))
       IN /\ op' = "decode"
          /\ eng' = e
          /\ arg' = NewDest(dt)
          /\ err' = r.err
          /\ dest' = r.dest
          /\ before' = stObjects[e]
          /\ reads' = r.reads
          /\ UNCHANGED <<typeHash, cfg, MaxDepth, stObjects, schemas, wire, pools, calls>>

\* bytes that come from elsewhere than EncodeToBytes
RawWire(data) == [data |-> data, id |-> 0, typ |-> <<"raw">>, val |-> <<>>]

\* DecodeFromBytes of any bytes, into a fresh destination of type dt
DecodeRaw(e, data, dt) ==
    LET r == decodeFromBytes(stObjects[e], data, NewDest(dt))
    IN /\ op' = "decode"
       /\ eng' = e
       /\ arg' = NewDest(dt)
       /\ err' = r.err
       /\ dest' = r.dest
       /\ wire' = RawWire(data)
       /\ before' = stObjects[e]
       /\ reads' = r.reads
       /\ UNCHANGED <<typeHash, cfg, MaxDepth, stObjects, schemas, pools, calls>>

\* DecodeToNew of any bytes
DecodeToNew(e, data) ==
    LET r == decodeToNew(stObjects[e], data)
    IN /\ op' = "decodeToNew"
       /\ eng' = e
       /\ arg' = NoArg
       /\ err' = r.err
       /\ dest' = r.dest
       /\ wire' = RawWire(data)
       /\ before' = stObjects[e]
       /\ reads' = r.reads
       /\ UNCHANGED <<typeHash, cfg, MaxDepth, stObjects, schemas, pools, calls>>

Next ==
    \/ \E e \in Engines, ts \in ArgLists(EnvArgTypes) : AddStructs(e, ts)
    \/ \E e \in Engines, data \in EncInputs : EncodeToBytes(e, data)
    \/ \E e \in Engines, dt \in DestTypes : DecodeFromBytes(e, dt)

Spec == Init /\ [][Next]_vars

----------------------------------------------------------------------------
(* The envelope on one engine, given bytes of any making: whole messages    *)
(* and every prefix of them.                                                  *)

\* a type id no struct of the process has
UnknownID == <<99, 0, 0, 0>>

Versions == {<<1, 0>>, <<1, 1>>, <<2, 0>>}

\* the count and what follows it: count 1 and a payload, count 2, a count
\* whose last byte is missing, a count of more than five bytes
CountTails == {<<1, 0, 0>>, <<2>>, <<128>>, <<128, 128, 128, 128, 128, 1>>}

Prefixes(m) == {SubSeq(m, 1, n) : n \in 0..Len(m)}

RawMessages(h) ==
    UNION {Prefixes(v \o id \o c) :
              v \in Versions, id \in {PutLE(h["Person"], 4), UnknownID}, c \in CountTails}

\* pointers to a struct and to a slice of structs
HdrDestTypes == {<<"ptr", "Person">>, <<"ptr", "slice", "Person">>}

NextHdr ==
    \/ \E t \in EnvArgTypes : AddStructs("client", <<t>>)
    \/ \E data \in EncInputs : EncodeToBytes("client", data)
    \/ \E data \in RawMessages(typeHash), dt \in HdrDestTypes : DecodeRaw("client", data, dt)
    \/ \E data \in RawMessages(typeHash) : DecodeToNew("client", data)

SpecHdr == Init /\ [][NextHdr]_vars

----------------------------------------------------------------------------
(* The varint decoders alone, each given a buffer: k bytes with the          *)
(* continuation bit set, then nothing, a last byte, or a last byte and one    *)
(* byte more.                                                                 *)

VarintInputs ==
    {[i \in 1..k |-> c] \o t :
        k \in 0..MaxVarintLen, c \in {128, 255}, t \in {<<>>, <<1>>, <<127>>, <<1, 128>>}}

InitVarint ==
    /\ typeHash \in {h \in HashTables : h["Person"] = 0}
    /\ cfg = [e \in Engines |-> <<>>]
    /\ stObjects = [e \in Engines |-> <<>>]
    /\ schemas = [e \in Engines |-> <<>>]
    /\ MaxDepth = [e \in Engines |-> newMaxDepth(cfg[e])]
    /\ pools = [e \in Engines |-> NoPools]
    /\ calls = [g \in Goroutines |-> NoCall]
    /\ before = <<>>
    /\ op = "new"
    /\ eng = "client"
    /\ arg \in {Val(<<"bytes">>, b) : b \in VarintInputs}
    /\ err = ""
    /\ wire = NoWire
    /\ dest = NoDest
    /\ reads = {}

\* decodeVarint of the buffer: the value, the bytes consumed, the error
DecodeVarint ==
    LET r == decodeVarint(arg.val)
    IN /\ op' = "decodeVarint"
       /\ err' = r.err
       /\ dest' = Val(<<"uint32">>, <<r.x.hi, r.x.lo, r.n>>)
       /\ UNCHANGED <<typeHash, cfg, MaxDepth, stObjects, schemas, before, eng, arg, wire,
                      reads, pools, calls>>

\* decodeVarint64 of the buffer
DecodeVarint64 ==
    LET r == decodeVarint64(arg.val)
    IN /\ op' = "decodeVarint64"
       /\ err' = r.err
       /\ dest' = Val(<<"uint64">>, <<r.x.hi, r.x.mid, r.x.lo, r.n>>)
       /\ UNCHANGED <<typeHash, cfg, MaxDepth, stObjects, schemas, before, eng, arg, wire,
                      reads, pools, calls>>

NextVarint == DecodeVarint \/ DecodeVarint64

SpecVarint == InitVarint /\ [][NextVarint]_vars

----------------------------------------------------------------------------
(* Registration alone, on one engine made by New(cfg...), over a chain of    *)
(* structs L1 { Next L2 }, L2 { Next L3 }, ... nested in one another.         *)

ChainTypes == {<<n>> : n \in ChainSet}

\* the depth of the deepest struct when t is given to AddStructs
ChainDepth(t) == Len(ChainNames) - ChainIndex(Head(t)) + 1

\* single values, and a struct followed by the struct that holds it
RegArgLists ==
    {<<t>> : t \in ChainTypes \cup {<<"int32">>}}
    \cup {<<<<ChainNames[k + 1]>>, <<ChainNames[k]>>>> : k \in 1..(Len(ChainNames) - 1)}

InitReg ==
    /\ typeHash \in HashTables
    /\ cfg \in {c \in [Engines -> CfgArgs] : c["server"] = <<>>}
    /\ Start

NextReg == \E ts \in RegArgLists : AddStructs("client", ts)

SpecReg == InitReg /\ [][NextReg]_vars

----------------------------------------------------------------------------
(* The envelope given a struct with slice fields: Msg, with Payload []byte   *)
(* and Ssid []uint32, registered and encoded on either engine.                *)

SliceFieldInputs ==
    {Val(<<"Msg">>, <<n, 0, p, s>>) :
        n \in {<<>>, <<104, 105>>},
        p \in {<<>>, <<7>>, <<1, 0>>, <<1, 0, 0, 0>>},
        s \in {<<>>, <<1>>, <<1, 300>>}}

NextEnv ==
    \/ \E e \in Engines : AddStructs(e, <<<<"Msg">>>>)
    \/ \E e \in Engines, data \in SliceFieldInputs : EncodeToBytes(e, data)

SpecEnv == Init /\ [][NextEnv]_vars

----------------------------------------------------------------------------
(* The registry given type graphs: chains of several depths, the two structs *)
(* that refer to each other, alone, together and before a chain or a value    *)
(* that is no struct, and the struct that holds a small struct and a chain.   *)

GraphArgLists ==
    {<<<<ChainNames[k]>>>> : k \in {1, 5, 8}}
    \cup {<<<<"NodeA">>>>, <<<<"NodeB">>>>, <<<<"NodeA">>, <<"NodeB">>>>,
          <<<<"NodeB">>, <<"int32">>>>, <<<<"NodeA">>, <<ChainNames[1]>>>>,
          <<<<"Pair">>>>}

NextGraph == \E ts \in GraphArgLists : AddStructs("client", ts)

SpecGraph == InitReg /\ [][NextGraph]_vars

----------------------------------------------------------------------------
(* The codec engine alone, on one engine made by New(): Encode of a value,   *)
(* and Decode of the bytes Encode returned into a pointer to a zero value of *)
(* the same type.                                                             *)

\* a cache held in one variable of the package, shared by every engine
storeSchemas_Shared(all, e, sch) == [x \in DOMAIN all |-> sch]

\* tb.schemas = ...: the cache is a field of the engine
storeSchemas(all, e, sch) == [all EXCEPT ![e] = sch]

Encode(e, data) ==
    LET g == poolGet(pools[e].encoders)
        r == encode(typeHash, schemas[e], data)
    IN /\ pools' = [pools EXCEPT ![e].encoders = poolPut(holdErr(g.pool, g.w, ""), g.w)]
       /\ schemas' = storeSchemas(schemas, e, r.schemas)
       /\ op' = "Encode"
       /\ eng' = e
       /\ arg' = data
       /\ err' = r.err
       /\ wire' = [data |-> r.b, id |-> 0, typ |-> data.typ, val |-> data.val]
       /\ dest' = NoDest
       /\ before' = stObjects[e]
       /\ reads' = {}
       /\ UNCHANGED <<typeHash, cfg, MaxDepth, stObjects, calls>>

\* TinyBin.EncodeTo(data, dst): left tells how many writes dst takes.  dest
\* records the sink: what it was to take, the calls of Write it saw, and the
\* err the encoder held when it came out of the pool.
TinyBinEncodeTo(e, data, left) ==
    LET g == poolGet(pools[e].encoders)
        e0 == Reset([NewEncoder EXCEPT !.err = g.pool.errs[g.w]], left)
        r == encoderEncode(typeHash, schemas[e], data, e0)
    IN /\ pools' = [pools EXCEPT
                       ![e].encoders = poolPut(holdErr(g.pool, g.w, r.e.err), g.w)]
       /\ schemas' = storeSchemas(schemas, e, r.schemas)
       /\ op' = "EncodeTo"
       /\ eng' = e
       /\ arg' = data
       /\ err' = r.err
       /\ wire' = [data |-> r.e.out, id |-> 0, typ |-> data.typ, val |-> data.val]
       /\ dest' = Val(<<"sink">>, <<left, r.e.tries, g.pool.errs[g.w]>>)
       /\ before' = stObjects[e]
       /\ reads' = {}
       /\ UNCHANGED <<typeHash, cfg, MaxDepth, stObjects, calls>>

Decode(e) ==
    /\ op = "Encode"
    /\ err = ""
    /\ LET target == NewDest(<<"ptr">> \o wire.typ)
           g == poolGet(pools[e].decoders)
           r == decode(typeHash, schemas[e], wire.data, target)
       IN /\ pools' = [pools EXCEPT ![e].decoders = poolPut(g.pool, g.w)]
          /\ schemas' = storeSchemas(schemas, e, r.schemas)
          /\ op' = "Decode"
          /\ eng' = e
          /\ arg' = target
          /\ err' = r.err
          /\ dest' = r.dest
          /\ before' = stObjects[e]
          /\ reads' = {}
          /\ UNCHANGED <<typeHash, cfg, MaxDepth, stObjects, wire, calls>>

InitCodec ==
    /\ typeHash \in {h \in HashTables : h["Person"] = 0}
    /\ cfg = [e \in Engines |-> <<>>]
    /\ Start

NextCodec ==
    \/ \E data \in CodecInputs : Encode("client", data)
    \/ Decode("client")

SpecCodec == InitCodec /\ [][NextCodec]_vars

----------------------------------------------------------------------------
(* The varint encoders and decoders together: a value is encoded, bytes are  *)
(* put after the encoding, and the buffer is decoded.                         *)

\* values around the powers of 128 and at the ends of the 32- and 64-bit ranges
Limbs == {0, 1, 127, 128, 16383, 16384, Pow128(3) - 1, Pow128(3), Pow128(3) * 128 - 1}

Uint32s == {U32(hi, lo) : hi \in {0, 1, 7, 8, 15}, lo \in Limbs}

Uint64s ==
    {U64(hi, mid, lo) : hi \in {1, 127, 128, 255}, mid \in {0, Pow128(3) * 128 - 1},
                        lo \in {0, 127, Pow128(3) * 128 - 1}}
    \cup {U64(0, mid, 0) : mid \in {16, 128, Pow128(3), Pow128(3) * 128 - 1}}

\* what follows the encoding in the buffer
Trailers == {<<>>, <<0>>, <<128>>, <<255, 255, 1>>}

\* encodeVarint(x), and bytes after it
EncodeVarint(x, t) ==
    LET b == encodeVarint32(x)
    IN /\ op' = "encodeVarint"
       /\ arg' = Val(<<"bytes">>, b \o t)
       /\ wire' = [data |-> b, id |-> 0, typ |-> <<"uint32">>, val |-> <<x.hi, x.lo>>]
       /\ err' = ""
       /\ dest' = NoDest
       /\ UNCHANGED <<typeHash, cfg, MaxDepth, stObjects, schemas, before, eng, reads,
                      pools, calls>>

\* encodeVarint64(x), and bytes after it
EncodeVarint64(x, t) ==
    LET b == encodeVarint64(x)
    IN /\ op' = "encodeVarint64"
       /\ arg' = Val(<<"bytes">>, b \o t)
       /\ wire' = [data |-> b, id |-> 0, typ |-> <<"uint64">>, val |-> <<x.hi, x.mid, x.lo>>]
       /\ err' = ""
       /\ dest' = NoDest
       /\ UNCHANGED <<typeHash, cfg, MaxDepth, stObjects, schemas, before, eng, reads,
                      pools, calls>>

NextRound ==
    \/ \E x \in Uint32s, t \in Trailers : EncodeVarint(x, t)
    \/ \E x \in Uint64s, t \in Trailers : EncodeVarint64(x, t)
    \/ op = "encodeVarint" /\ DecodeVarint
    \/ op = "encodeVarint64" /\ DecodeVarint64

SpecRound == InitCodec /\ [][NextRound]_vars


----------------------------------------------------------------------------
(* The codec engine given input that stops short: Encode of a value, and     *)
(* Decode of the first n bytes of what Encode returned into a pointer to a   *)
(* zero value of the same type.                                               *)

\* Decode of the first n bytes of the message the last Encode returned
DecodeTruncated(e, n) ==
    /\ op = "Encode"
    /\ err = ""
    /\ n < Len(wire.data)
    /\ LET target == NewDest(<<"ptr">> \o wire.typ)
           g == poolGet(pools[e].decoders)
           r == decode(typeHash, schemas[e], SubSeq(wire.data, 1, n), target)
       IN /\ pools' = [pools EXCEPT ![e].decoders = poolPut(g.pool, g.w)]
          /\ schemas' = storeSchemas(schemas, e, r.schemas)
          /\ op' = "Decode"
          /\ eng' = e
          /\ arg' = target
          /\ err' = r.err
          /\ dest' = r.dest
          /\ wire' = [wire EXCEPT !.data = SubSeq(wire.data, 1, n)]
          /\ before' = stObjects[e]
          /\ reads' = {}
          /\ UNCHANGED <<typeHash, cfg, MaxDepth, stObjects, calls>>

\* a value of each struct type with a string, a bool, floats, and slices of
\* bytes, bools and integers that are not empty
TruncInputs ==
    {Val(<<"Basic">>, <<<<65, 108>>, 300, <<0, 0, 0, 0, 0, 0, 252, 63>>, TRUE>>),
     Val(<<"Msg">>, <<<<104, 105>>, -70000, <<104, 105>>, <<1, 300>>>>),
     Val(<<"Flags">>, <<<<FALSE, FALSE>>, <<-1, 200>>, <<0, 0, 0, 63>>, 300, <<>>, 0>>)}

\* the longest message of TruncInputs has fewer bytes than this
MaxWireLen == 24

NextTrunc ==
    \/ \E data \in TruncInputs : Encode("client", data)
    \/ \E n \in 0..MaxWireLen : DecodeTruncated("client", n)

SpecTrunc == InitCodec /\ [][NextTrunc]_vars

----------------------------------------------------------------------------
(* Two engines, each made by its own New(), used in turn: AddStructs, Encode *)
(* and Decode on either.                                                      *)

IsoInputs == {Val(<<"Inner">>, <<-42>>), Val(<<"Person">>, <<Alice, 30>>)}

NextIso ==
    \/ \E e \in Engines : AddStructs(e, <<<<"Person">>>>)
    \/ \E e \in Engines, data \in IsoInputs : Encode(e, data)
    \/ \E e \in Engines : Decode(e)

SpecIso == InitCodec /\ [][NextIso]_vars

----------------------------------------------------------------------------
(* The codec engine writing to a sink that may fail: EncodeTo of a value to  *)
(* a sink that takes every write, or that fails after a number of writes.     *)

\* the most writes a failing sink takes before it fails
MaxSinkWrites == 3

SinkInputs ==
    {Val(<<"Inner">>, <<-42>>),
     Val(<<"Basic">>, <<<<65, 108>>, 300, <<0, 0, 0, 0, 0, 0, 252, 63>>, TRUE>>),
     Val(<<"Msg">>, <<<<104, 105>>, -70000, <<104, 105>>, <<1, 300>>>>),
     Val(<<"nil">>, <<>>)}

NextSink ==
    \E data \in SinkInputs, left \in {Healthy} \cup 0..MaxSinkWrites :
        TinyBinEncodeTo("client", data, left)

SpecSink == InitCodec /\ [][NextSink]_vars

----------------------------------------------------------------------------
(* The codec engine decoding into a destination that is in use: Encode of a  *)
(* value, and Decode of the bytes into a pointer to a value of the same type *)
(* that holds something already.                                              *)

\* Decode of the message the last Encode returned into a pointer to held
DecodeOver(e, held) ==
    /\ op = "Encode"
    /\ err = ""
    /\ held.typ = wire.typ
    /\ LET target == Val(<<"ptr">> \o wire.typ, <<held.val>>)
           g == poolGet(pools[e].decoders)
           r == decode(typeHash, schemas[e], wire.data, target)
       IN /\ pools' = [pools EXCEPT ![e].decoders = poolPut(g.pool, g.w)]
          /\ schemas' = storeSchemas(schemas, e, r.schemas)
          /\ op' = "Decode"
          /\ eng' = e
          /\ arg' = target
          /\ err' = r.err
          /\ dest' = r.dest
          /\ before' = stObjects[e]
          /\ reads' = {}
          /\ UNCHANGED <<typeHash, cfg, MaxDepth, stObjects, wire, calls>>

\* values whose slices are empty or not: Payload []byte and Ssid []uint32 of
\* Msg, Items []Inner of Outer
OverInputs ==
    {Val(<<"Msg">>, <<<<104, 105>>, 0, p, s>>) :
        p \in {<<>>, <<104, 105>>, <<7>>}, s \in {<<>>, <<1, 300>>}}
    \cup {Val(<<"Outer">>, <<<<>>, [i \in 1..ArrayLen |-> 0], it, <<>>>>) :
            it \in {<<>>, <<<<1>>, <<-42>>>>, <<<<5>>>>}}

NextOver ==
    \/ \E data \in OverInputs : Encode("client", data)
    \/ \E held \in OverInputs : DecodeOver("client", held)

SpecOver == InitCodec /\ [][NextOver]_vars

----------------------------------------------------------------------------
(* The codec engine given types it cannot scan, among types it can: a map, a *)
(* struct with a channel field, slices and arrays of such.                    *)

ScanInputs ==
    {Val(<<"Inner">>, <<-42>>),
     Val(<<"Basic">>, <<<<65, 108>>, 300, <<0, 0, 0, 0, 0, 0, 252, 63>>, TRUE>>),
     Val(<<"Msg">>, <<<<104, 105>>, -70000, <<104, 105>>, <<1, 300>>>>),
     Val(<<"map">>, <<>>), Val(<<"interface">>, <<>>),
     Val(<<"Bad">>, <<7, <<>>>>),
     Val(<<"slice", "Bad">>, <<>>),
     Val(<<"slice", "func">>, <<>>),
     Val(<<"slice", "ptr", "complex128">>, <<>>),
     Val(<<"array", "chan">>, <<>>)}

NextScan == \E data \in ScanInputs : Encode("client", data)

SpecScan == InitCodec /\ [][NextScan]_vars

----------------------------------------------------------------------------
(* The codec cache filling up: one engine made by New() is given values of   *)
(* the struct types T1, T2, ... one after the other, each for the first      *)
(* time, and values of T1 again at any time.                                  *)

\* one type more than the cache holds
GenCount == SchemaLimit + 1

\* the number of the type the cache took last
LastGen(sch) == IF Len(sch) = 0 THEN 0 ELSE sch[Len(sch)].TypeID - 3000

\* T1 is given at any time; the type after the last one the cache took is
\* given while the oldest entry of the cache is T1's
GenTurn(sch) ==
    {1} \cup (IF Len(sch) > 0 /\ sch[1].TypeID = StructID(typeHash, GenType(1))
                 /\ LastGen(sch) < GenCount
              THEN {LastGen(sch) + 1} ELSE {})

NextCache ==
    \E k \in GenTurn(schemas["client"]) : Encode("client", Val(GenType(k), <<>>))

SpecCache == InitCodec /\ [][NextCache]_vars

----------------------------------------------------------------------------
(* Goroutines calling Encode and Decode on one engine at the same time.  A   *)
(* call goes through the steps of TinyBin.EncodeTo / TinyBin.Decode and of   *)
(* scanToCache, one access to the shared pools or to tb.schemas at a time;    *)
(* nothing in the engine orders the accesses of two goroutines to             *)
(* tb.schemas.  calls[g].pc is where goroutine g is:                          *)
(*   "got"      it holds a worker taken from the pool                         *)
(*   "scanned"  findSchema missed and scan built a codec                      *)
(*   "adding"   addSchema has read tb.schemas                                 *)
(*   "coded"    scanToCache has returned the codec                            *)
(*   "done"     the worker has encoded or decoded                             *)

\* the type whose codec a call needs
callType(c) == IF c.op = "Encode" THEN c.data.typ ELSE Elem(c.data.typ)

PoolOf(e, kind) == IF kind = "Encode" THEN pools[e].encoders ELSE pools[e].decoders

SetPool(e, kind, p) ==
    IF kind = "Encode" THEN [pools EXCEPT ![e].encoders = p]
    ELSE [pools EXCEPT ![e].decoders = p]

\* e := tb.encoders.Get(), e.Reset(dst, tb)  /  d := tb.decoders.Get(),
\* d.Reset(data, tb): data is the value to encode or the target, b the bytes
\* to decode
Begin(g, kind, e, data, b) ==
    /\ calls[g].pc = "idle"
    /\ LET got == poolGet(PoolOf(e, kind))
       IN /\ pools' = SetPool(e, kind, got.pool)
          /\ calls' = [calls EXCEPT ![g] =
                          [NoCall EXCEPT !.pc = "got", !.op = kind, !.e = e,
                                         !.data = data, !.w = got.w, !.b = b]]
    /\ UNCHANGED <<typeHash, cfg, MaxDepth, stObjects, schemas, before, op, eng, arg,
                   err, wire, dest, reads>>

\* the checks that open Encoder.Encode and Decoder.Decode, then scanToCache
\* up to the scan: findSchema, and scan when it misses
Find(g) ==
    LET c == calls[g]
        hit == findSchema(schemas[c.e], StructID(typeHash, callType(c)))
        r == scanType(callType(c))
    IN /\ c.pc = "got"
       /\ calls' = [calls EXCEPT ![g] =
             IF c.op = "Encode" /\ c.data.typ = <<"nil">>
             THEN [c EXCEPT !.pc = "done", !.err = "NilValue"]
             ELSE IF c.op = "Decode" /\ (Kind(c.data.typ) # "ptr" \/ Len(c.data.val) = 0)
             THEN [c EXCEPT !.pc = "done", !.err = "MustBePointer"]
             ELSE IF hit.found THEN [c EXCEPT !.pc = "coded", !.codec = hit.codec]
             ELSE IF r.err # "" THEN [c EXCEPT !.pc = "done", !.err = r.err]
             ELSE [c EXCEPT !.pc = "scanned", !.codec = r.codec]]
       /\ UNCHANGED <<typeHash, cfg, MaxDepth, stObjects, schemas, before, op, eng, arg,
                      err, wire, dest, reads, pools>>

\* addSchema reads tb.schemas
AddRead(g) ==
    LET c == calls[g]
    IN /\ c.pc = "scanned"
       /\ calls' = [calls EXCEPT ![g] = [c EXCEPT !.pc = "adding", !.snap = schemas[c.e]]]
       /\ UNCHANGED <<typeHash, cfg, MaxDepth, stObjects, schemas, before, op, eng, arg,
                      err, wire, dest, reads, pools>>

\* addSchema stores the slice it read with the new entry appended
AddWrite(g) ==
    LET c == calls[g]
    IN /\ c.pc = "adding"
       /\ schemas' = storeSchemas(schemas, c.e,
                                  addSchema(c.snap, StructID(typeHash, callType(c)), c.codec))
       /\ calls' = [calls EXCEPT ![g] = [c EXCEPT !.pc = "coded", !.snap = <<>>]]
       /\ UNCHANGED <<typeHash, cfg, MaxDepth, stObjects, before, op, eng, arg,
                      err, wire, dest, reads, pools>>

\* c.EncodeTo(e, rv) / c.DecodeTo(d, rv)
Run(g) ==
    LET c == calls[g]
        e == EncodeTo(c.codec, NewEncoder, c.data.val)
        r == DecodeTo(c.codec, NewReader(c.b), Elem(c.data.typ), c.data.val[1])
    IN /\ c.pc = "coded"
       /\ calls' = [calls EXCEPT ![g] =
             IF c.op = "Encode"
             THEN [c EXCEPT !.pc = "done", !.err = e.err,
                            !.b = IF e.err = "" THEN e.out ELSE <<>>]
             ELSE [c EXCEPT !.pc = "done", !.err = r.err,
                            !.data = Val(c.data.typ, <<r.rv>>)]]
       /\ UNCHANGED <<typeHash, cfg, MaxDepth, stObjects, schemas, before, op, eng, arg,
                      err, wire, dest, reads, pools>>

\* tb.encoders.Put(e) / tb.decoders.Put(d), and the call returns
Return(g) ==
    LET c == calls[g]
    IN /\ c.pc = "done"
       /\ pools' = SetPool(c.e, c.op, poolPut(PoolOf(c.e, c.op), c.w))
       /\ calls' = [calls EXCEPT ![g] = NoCall]
       /\ op' = c.op
       /\ eng' = c.e
       /\ err' = c.err
       /\ before' = stObjects[c.e]
       /\ reads' = {}
       /\ IF c.op = "Encode"
          THEN /\ arg' = c.data
               /\ wire' = [data |-> c.b, id |-> 0, typ |-> c.data.typ, val |-> c.data.val]
               /\ dest' = NoDest
          ELSE /\ arg' = NewDest(c.data.typ)
               /\ wire' = RawWire(c.b)
               /\ dest' = c.data
       /\ UNCHANGED <<typeHash, cfg, MaxDepth, stObjects, schemas>>

\* what the goroutines encode: two struct types, and a nil value
ConcInputs ==
    {Val(<<"Inner">>, <<-42>>), Val(<<"Person">>, <<Alice, 30>>), Val(<<"nil">>, <<>>)}

\* a goroutine decodes the bytes the last Encode returned
NextConc ==
    \E g \in Goroutines :
        \/ \E data \in ConcInputs : Begin(g, "Encode", "client", data, <<>>)
        \/ /\ op = "Encode" /\ err = ""
           /\ Begin(g, "Decode", "client", NewDest(<<"ptr">> \o wire.typ), wire.data)
        \/ Find(g)
        \/ AddRead(g)
        \/ AddWrite(g)
        \/ Run(g)
        \/ Return(g)

SpecConc == InitCodec /\ [][NextConc]_vars

----------------------------------------------------------------------------
(* Properties of the registry and the envelope *)

IsPrefix(a, b) == Len(a) <= Len(b) /\ SubSeq(b, 1, Len(a)) = a

\* the last call was AddStructs and every value it was given is a struct
\* whose type the engine had registered before the call
ReRegistration ==
    /\ op = "add"
    /\ \A k \in 1..Len(arg.val) :
          /\ Head(arg.val[k]) \in StructNames
          /\ \E i \in 1..Len(before) : before[i].stID = typeHash[Head(arg.val[k])]

\* the count a message's header carries
HeaderCount(data) == decodeVarint(From(data, 6)).x

\* the last call decoded a message of engine eng's own making into dt
DecodedInto(dt) == op = "decode" /\ arg.typ = dt

\* C2: DecodeFromBytes of what EncodeToBytes returned for a registered struct,
\* into a pointer to that struct type, returns no error and leaves the
\* destination equal to the encoded value.
C2_EnvelopeRoundTrip ==
    (/\ op = "decode"
     /\ Kind(wire.typ) = "struct"
     /\ arg.typ = <<"ptr">> \o wire.typ
     /\ \E i \in 1..Len(stObjects[eng]) : stObjects[eng][i].stID = wire.id)
    => (err = "" /\ dest.val = <<wire.val>>)

\* C3: the identifier of every registry entry is the index it sits at,
\* counted from 0.
C3_IdIsIndex ==
    \A e \in Engines : \A i \in 1..Len(stObjects[e]) : stObjects[e][i].stID = i - 1

\* C4: AddStructs of types that are all registered already returns no error
\* and leaves the registry as it was.
C4_ReRegistrationNoOp ==
    ReRegistration => (err = "" /\ stObjects[eng] = before)

C4_Witness ==
    ReRegistration /\ Len(arg.val) = 2 /\ arg.val[1] # arg.val[2] /\ Len(before) = 2

\* C5: two engines that registered the same two struct types in opposite
\* orders give each type different identifiers.
C5_OrderDecidesIds ==
    (/\ Len(stObjects["client"]) = 2
     /\ Len(stObjects["server"]) = 2
     /\ stObjects["client"][1].stFields = stObjects["server"][2].stFields
     /\ stObjects["client"][2].stFields = stObjects["server"][1].stFields)
    => (/\ stObjects["client"][1].stID # stObjects["server"][2].stID
        /\ stObjects["client"][2].stID # stObjects["server"][1].stID)

\* C6: every call leaves each registry entry where it was, unchanged, and
\* never shortens the registry.
C6_RegistryOnlyGrows ==
    [][\A e \in Engines : IsPrefix(stObjects[e], stObjects'[e])]_vars

C6_Witness ==
    /\ op = "add"
    /\ Len(before) >= 1
    /\ Len(stObjects[eng]) > Len(before)
    /\ err # ""

\* C8: EncodeToBytes of an empty slice of structs returns an error and no
\* bytes, whatever is registered.
C8_EmptySliceRejected ==
    (/\ op = "encode"
     /\ Kind(arg.typ) = "slice"
     /\ Kind(Elem(arg.typ)) = "struct"
     /\ Len(arg.val) = 0)
    => (err # "" /\ wire.data = <<>>)

C8_Witness ==
    /\ op = "encode"
    /\ arg = Val(<<"slice", "Person">>, <<>>)
    /\ \E i \in 1..Len(stObjects[eng]) : stObjects[eng][i].stID = typeHash["Person"]
    /\ err = "SliceEmpty"

\* C9: in every message EncodeToBytes produces, count 1 goes with a single
\* struct and count n > 1 with a slice of n structs; a slice never yields
\* count 1.
C9_CountMatchesShape ==
    (op = "encode" /\ err = "")
    => /\ (HeaderCount(wire.data) = U32(0, 1)) <=> (Kind(wire.typ) = "struct")
       /\ Kind(wire.typ) = "slice" =>
             (Len(wire.val) > 1 /\ HeaderCount(wire.data) = U32(0, Len(wire.val)))

\* C10: DecodeFromBytes of a message with count n > 1 into a pointer to a
\* slice of structs returns no error and sets the slice to the n encoded
\* structs in order.
C10_SliceDecoded ==
    (/\ DecodedInto(<<"ptr", "slice", "Person">>)
     /\ wire.typ = <<"slice", "Person">>
     /\ Len(wire.val) > 1
     /\ \E i \in 1..Len(stObjects[eng]) : stObjects[eng][i].stID = wire.id)
    => (err = "" /\ dest.val = <<wire.val>>)

\* the last call was DecodeFromBytes or DecodeToNew
HeaderParsed == op \in {"decode", "decodeToNew"}

\* the bytes the last decode was given open with version 1.0 and a type id
WellFormed(data) == Len(data) >= 6 /\ data[1] = 1 /\ data[2] = 0

\* C11: decoding a message whose header carries another major version than 1
\* fails; a header with major version 1 and a minor version other than 0 is
\* not rejected for its version.
C11_VersionCheck ==
    (HeaderParsed /\ Len(wire.data) >= 5) =>
        /\ wire.data[1] # 1 => err # ""
        /\ (wire.data[1] = 1 /\ wire.data[2] # 0) => err # "InvalidVersion"

\* the last call was EncodeToBytes of a struct or of a slice of structs whose
\* struct type the engine has not registered
EncodedUnregistered ==
    /\ op = "encode"
    /\ \/ Kind(arg.typ) = "struct"
       \/ Kind(arg.typ) = "slice" /\ Kind(Elem(arg.typ)) = "struct"
    /\ LET st == IF Kind(arg.typ) = "struct" THEN arg.typ ELSE Elem(arg.typ)
       IN \A i \in 1..Len(stObjects[eng]) : stObjects[eng][i].stID # typeHash[Head(st)]

\* the last call decoded a well-formed header whose type id no registry
\* entry has
DecodedUnregistered ==
    /\ HeaderParsed
    /\ WellFormed(wire.data)
    /\ \A i \in 1..Len(stObjects[eng]) :
          PutLE(stObjects[eng][i].stID, 4) # SubSeq(wire.data, 3, 6)

C12_WitnessEncode ==
    /\ EncodedUnregistered
    /\ Kind(arg.typ) = "slice"
    /\ Len(arg.val) = 2
    /\ Len(stObjects[eng]) > 0

\* C13: with Person registered first, EncodeToBytes of
\* Person{Name: "Alice", Age: 30} gives the bytes 1, 0, 0, 1 (versions, type
\* id, count), 5, "Alice", and 60, the zigzag varint of 30.
C13_ExactBytes ==
    (/\ op = "encode"
     /\ arg = Val(<<"Person">>, <<Alice, 30>>)
     /\ Len(stObjects[eng]) > 0
     /\ stObjects[eng][1].stID = typeHash["Person"])
    => (err = "" /\ wire.data = <<1, 0, 0, 1, 5>> \o Alice \o <<60>>)

\* C19: whatever bytes DecodeFromBytes or DecodeToNew is given, the header
\* parse reads no index at or beyond the length of the input, and the call
\* returns a result or an error.
C19_NoReadBeyondInput ==
    HeaderParsed =>
        /\ \A i \in reads : i < Len(wire.data)
        /\ err # "IndexOutOfRange"
        /\ err = "" => WellFormed(wire.data) /\ Cardinality(reads) >= 7

\* a message of five bytes, a type id short of its last byte
C19_Witness ==
    /\ HeaderParsed
    /\ Len(wire.data) = 5
    /\ wire.data[1] = 1 /\ wire.data[2] = 0
    /\ err = "InvalidProtocol"

\* a count whose last byte is missing
C19_WitnessCount ==
    /\ op = "decodeToNew"
    /\ Len(wire.data) = 7
    /\ reads = 0..6
    /\ err = "VarintTruncated"

----------------------------------------------------------------------------
(* Properties of the varint decoders *)

\* the first k bytes of buf all have the continuation bit set
Continued(buf, k) == Len(buf) >= k /\ \A i \in 1..k : buf[i] >= 128

\* buf ends before a byte without the continuation bit
Unterminated(buf) == \A i \in 1..Len(buf) : buf[i] >= 128

\* C14: decodeVarint of a buffer whose first five bytes have the continuation
\* bit set and that has a sixth byte returns the overflow error, and so does
\* decodeVarint64 after ten such bytes and an eleventh; a buffer that is not
\* over-long in this way and ends (the empty one too) before a byte without
\* the continuation bit gives the truncated error.
C14_VarintBounds ==
    /\ op = "decodeVarint" =>
          /\ (Continued(arg.val, 5) /\ Len(arg.val) >= 6) => err = "VarintOverflow"
          /\ (Unterminated(arg.val) /\ Len(arg.val) <= 5) => err = "VarintTruncated"
    /\ op = "decodeVarint64" =>
          /\ (Continued(arg.val, 10) /\ Len(arg.val) >= 11) => err = "VarintOverflow"
          /\ (Unterminated(arg.val) /\ Len(arg.val) <= 10) => err = "VarintTruncated"

C14_Witness ==
    /\ op = "decodeVarint"
    /\ Continued(arg.val, 5)
    /\ Len(arg.val) = 6
    /\ arg.val[6] < 128
    /\ err = "VarintOverflow"

C14_Witness64 ==
    /\ op = "decodeVarint64"
    /\ Continued(arg.val, 10)
    /\ Len(arg.val) = 11
    /\ err = "VarintOverflow"

C14_WitnessEmpty == op = "decodeVarint" /\ arg.val = <<>> /\ err = "VarintTruncated"

C14_WitnessTruncated64 ==
    op = "decodeVarint64" /\ Len(arg.val) = 10 /\ err = "VarintTruncated"

\* the largest values are decoded whole
C14_WitnessValue ==
    /\ op = "decodeVarint64"
    /\ arg.val = [i \in 1..9 |-> 255] \o <<1>>
    /\ dest.val = <<255, 268435455, 268435455, 10>>

----------------------------------------------------------------------------
(* Properties of the codec engine *)

\* C1: decoding the bytes Encode returned for a value, into a zero-valued
\* destination of the same type, returns no error and yields an equal value.
C1_CodecRoundTrip ==
    op = "Decode" => (err = "" /\ dest.val = <<wire.val>>)

----------------------------------------------------------------------------
(* Properties of the pools and of the cache under concurrent calls *)

Kinds == {"Encode", "Decode"}

\* the goroutines in a call of this kind on engine e
InCall(e, kind) ==
    {g \in Goroutines : calls[g].pc # "idle" /\ calls[g].e = e /\ calls[g].op = kind}

\* the workers those calls hold
Held(e, kind) == {calls[g].w : g \in InCall(e, kind)}

NoCallInProgress == \A g \in Goroutines : calls[g].pc = "idle"

\* C15: every worker a pool has made is either held by a call in progress or
\* back in the pool, never both; when no call is in progress, after calls
\* that returned an error as after calls that returned none, every worker
\* is back in its pool.
C15_WorkersReturned ==
    \A e \in Engines, kind \in Kinds :
        /\ PoolOf(e, kind).idle \cup Held(e, kind) = 1..PoolOf(e, kind).made
        /\ PoolOf(e, kind).idle \cap Held(e, kind) = {}
        /\ NoCallInProgress => PoolOf(e, kind).idle = 1..PoolOf(e, kind).made

\* two calls have returned, the last with an error, and both workers are back
C15_Witness ==
    /\ NoCallInProgress
    /\ op = "Encode"
    /\ err = "NilValue"
    /\ pools["client"].encoders.made = 2
    /\ pools["client"].encoders.idle = {1, 2}

\* a call is past scanToCache without an error
HasCodec(g) == calls[g].pc \in {"coded", "done"} /\ calls[g].codec # Leaf("nil")

\* C16: with goroutines calling Encode and Decode on one engine at the same
\* time, the cache holds an entry for the type of every call that is past
\* scanToCache, each entry holding the codec of its type; no two calls hold
\* the same worker; every call has the codec of its own type.
C16_ConcurrentUse ==
    /\ \A g \in Goroutines :
          HasCodec(g) =>
             /\ findSchema(schemas[calls[g].e],
                           StructID(typeHash, callType(calls[g]))).found
             /\ calls[g].codec = scanType(callType(calls[g])).codec
    /\ \A i \in 1..Len(schemas["client"]) :
          \E t \in {<<n>> : n \in StructNames} :
             /\ schemas["client"][i].TypeID = StructID(typeHash, t)
             /\ schemas["client"][i].Codec = scanType(t).codec
    /\ \A g1, g2 \in Goroutines :
          (/\ g1 # g2
           /\ calls[g1].pc # "idle" /\ calls[g2].pc # "idle"
           /\ calls[g1].op = calls[g2].op /\ calls[g1].e = calls[g2].e)
          => calls[g1].w # calls[g2].w

\* the bytes Encode gives for the value of the last Encode
WholeMessage == encode(typeHash, <<>>, Val(wire.typ, wire.val)).b

\* the last call was a Decode of fewer bytes than the whole message: the
\* reader ran out of bytes in some codec's DecodeTo
DecodedTruncated == op = "Decode" /\ Len(wire.data) < Len(WholeMessage)

\* C18: Decode of a message cut short, so that the reader runs out of bytes
\* while a codec is reading, returns an error.
C18_TruncatedIsError == DecodedTruncated => err # ""

\* the step leaves the registry, the cache and the pools of every engine but
\* the one it was called on as they were
OthersUntouched ==
    \A e \in Engines \ {eng'} :
        /\ stObjects'[e] = stObjects[e]
        /\ schemas'[e] = schemas[e]
        /\ pools'[e] = pools[e]

\* the step is an Encode on a fresh engine of the value that the step before,
\* an Encode on another engine that was fresh, encoded
FreshPair ==
    /\ op = "Encode" /\ err = ""
    /\ schemas[eng] = encode(typeHash, <<>>, arg).schemas
    /\ op' = "Encode" /\ eng' # eng /\ arg' = arg
    /\ schemas[eng'] = <<>>

C20_WitnessSameBytes ==
    /\ op = "Encode" /\ err = "" /\ arg.typ = <<"Person">>
    /\ \A e \in Engines : schemas[e] = encode(typeHash, <<>>, arg).schemas

----------------------------------------------------------------------------
(* Properties of the varint encoders with their decoders *)

\* C27: decodeVarint(encodeVarint(x)) returns x, no error and the length of
\* the encoding, 1 to 5 bytes, for every 32-bit x, also when bytes follow the
\* encoding; so does the 64-bit pair, with 1 to 10 bytes.
C27_VarintRoundTrip ==
    /\ (op = "decodeVarint" /\ wire.typ = <<"uint32">>) =>
            /\ err = ""
            /\ dest.val = wire.val \o <<Len(wire.data)>>
            /\ Len(wire.data) \in 1..5
    /\ (op = "decodeVarint64" /\ wire.typ = <<"uint64">>) =>
            /\ err = ""
            /\ dest.val = wire.val \o <<Len(wire.data)>>
            /\ Len(wire.data) \in 1..10

\* 2^32 - 1 has come back from its five bytes, with bytes after them
C27_Witness ==
    /\ op = "decodeVarint" /\ wire.typ = <<"uint32">>
    /\ wire.val = <<15, Pow128(3) * 128 - 1>>
    /\ Len(wire.data) = 5 /\ Len(arg.val) = 8
    /\ err = ""

\* 2^64 - 1 has come back from its ten bytes
C27_Witness64 ==
    /\ op = "decodeVarint64" /\ wire.typ = <<"uint64">>
    /\ wire.val = <<255, Pow128(3) * 128 - 1, Pow128(3) * 128 - 1>>
    /\ Len(wire.data) = 10
    /\ err = ""

\* a five-byte sequence: four continuation bytes and a last byte
FiveBytes ==
    /\ Len(arg.val) >= 5
    /\ \A i \in 1..4 : arg.val[i] >= 128
    /\ arg.val[5] < 128

\* the low 28 bits of the LEB128 value of a five-byte sequence
Low28(b) ==
    (b[1] % 128) + (b[2] % 128) * Pow128(1) + (b[3] % 128) * Pow128(2)
        + (b[4] % 128) * Pow128(3)

\* C28: when decodeVarint succeeds on a five-byte sequence, the uint32 it
\* returns is the LEB128 value of the bytes; a fifth byte above 0x0F, which
\* carries bits at or above 2^32, gives the overflow error.
C28_NoWrappedValue ==
    (op = "decodeVarint" /\ FiveBytes) =>
        /\ err = "" => dest.val = <<arg.val[5], Low28(arg.val), 5>>
        /\ arg.val[5] > 15 => err = "VarintOverflow"

----------------------------------------------------------------------------
(* Properties of the envelope's slice fields *)

\* the elements of a slice of integers of width w, one after the other
RECURSIVE ElementBytes(_, _)
ElementBytes(v, w) == IF Len(v) = 0 THEN <<>> ELSE PutLE(Head(v), w) \o ElementBytes(Tail(v), w)

\* a slice field on the wire: its uvarint length, then its elements
PrefixedSlice(v, w) == encodeVarint(Len(v)) \o ElementBytes(v, w)

\* the fields of a Msg with each slice field written with its length
MsgFieldBytes(v) ==
    encodeVarint(Len(v[1])) \o v[1] \o PutLE(v[2], 8)
        \o PrefixedSlice(v[3], 1) \o PrefixedSlice(v[4], 4)

\* the header of a message of one struct: version, type id, count
EnvHeaderLen == 7

\* C26: in the output of EncodeToBytes every []byte or other slice field is
\* written as its uvarint length followed by its elements (which is what
\* keeps two values of one type that differ in a field from encoding to the
\* same bytes).
C26_SliceFieldsPrefixed ==
    (op = "encode" /\ err = "" /\ wire.typ = <<"Msg">>) =>
        SubSeq(wire.data, EnvHeaderLen + 1, Len(wire.data)) = MsgFieldBytes(wire.val)

\* what C26 concludes: two successive calls of EncodeToBytes for values of
\* one type that differ never return the same bytes
DistinctValuesDistinctBytes ==
    [][(/\ op = "encode" /\ err = ""
        /\ op' = "encode" /\ err' = ""
        /\ wire'.typ = wire.typ /\ wire'.val # wire.val) =>
           wire'.data # wire.data]_vars

----------------------------------------------------------------------------
(* Properties of the recursion of AddStructs *)

\* the last call of AddStructs, made again: what it returned and the
\* recursion it took
LastAdd == addStructs(typeHash, MaxDepth[eng], before, arg.val, 1)

\* C25: AddStructs returns after finitely many steps for every type graph,
\* structs that refer to each other included, its recursion never deeper than
\* MaxDepth + 1 levels, ending in success or in the max-depth error.  No
\* struct type of the types in use is reached twice from one argument, so a
\* call for n arguments makes at most n calls of analyzeStruct for each
\* struct type.
C25_RegistrationTerminates ==
    op = "add" =>
        /\ LastAdd.err = err /\ LastAdd.objs = stObjects[eng]
        /\ LastAdd.deep <= MaxDepth[eng] + 1
        /\ LastAdd.calls <= Len(arg.val) * Cardinality(StructNames)
        /\ (\A i \in 1..Len(arg.val) : Kind(arg.val[i]) = "struct") =>
                err \in {"", "MaxDepthExceeded"}

\* the two structs that refer to each other have been registered in one call
C25_Witness ==
    /\ op = "add" /\ err = ""
    /\ arg.val = <<<<"NodeA">>, <<"NodeB">>>>
    /\ LastAdd.calls = 2 /\ LastAdd.deep = 1
    /\ Len(stObjects[eng]) > Len(before)

\* a chain deeper than MaxDepth has been given: the recursion went to
\* MaxDepth + 1 levels and ended in the max-depth error
C25_WitnessDepth ==
    /\ op = "add" /\ err = "MaxDepthExceeded"
    /\ LastAdd.deep = MaxDepth[eng] + 1 /\ LastAdd.deep > 3

\* the StructIDs of a registry
IdsOf(objs) == {objs[i].stID : i \in 1..Len(objs)}

\* the number of arguments the last call of AddStructs went through before
\* the one it failed at
ArgsDone ==
    CHOOSE n \in 0..(Len(arg.val) - 1) :
        /\ addStructs(typeHash, MaxDepth[eng], before, SubSeq(arg.val, 1, n), 1).err = ""
        /\ addStructs(typeHash, MaxDepth[eng], before, SubSeq(arg.val, 1, n + 1), 1).err # ""

\* the registry after the arguments before the failing one
EarlierArgs == addStructs(typeHash, MaxDepth[eng], before, SubSeq(arg.val, 1, ArgsDone), 1).objs

\* the struct fields of the failing argument whose analysis finished before
\* the field that failed
RECURSIVE NestedDone(_, _, _)
NestedDone(t, objs, i) ==
    IF Kind(t) # "struct" \/ i > Len(Fields(Head(t))) THEN {}
    ELSE LET f == Fields(Head(t))[i]
             r == analyzeStruct(typeHash, MaxDepth[eng], objs, f.typ, 2)
         IN IF Kind(f.typ) # "struct" THEN NestedDone(t, objs, i + 1)
            ELSE IF r.err # "" THEN {}
            ELSE {StructID(typeHash, f.typ)} \cup NestedDone(t, r.objs, i + 1)

\* C29: when AddStructs returns an error, the structs it appended earlier in
\* the call stay in the registry, after the entries the registry held before:
\* those of the earlier arguments and the nested structs whose analysis had
\* finished.
C29_PartialRegistrationStays ==
    (op = "add" /\ err # "") =>
        /\ Len(before) <= Len(EarlierArgs)
        /\ SubSeq(EarlierArgs, 1, Len(before)) = before
        /\ Len(EarlierArgs) <= Len(stObjects[eng])
        /\ SubSeq(stObjects[eng], 1, Len(EarlierArgs)) = EarlierArgs
        /\ NestedDone(arg.val[ArgsDone + 1], EarlierArgs, 1) \subseteq IdsOf(stObjects[eng])

\* the call failed at its second argument, no struct, and the struct given
\* first is in the registry
C29_Witness ==
    /\ op = "add" /\ err = "NotStruct"
    /\ ArgsDone = 1
    /\ Len(stObjects[eng]) = Len(before) + 1
    /\ StructID(typeHash, arg.val[1]) \in IdsOf(stObjects[eng]) \ IdsOf(before)

\* the call failed at the depth of Pair's second field, and the struct of its
\* first field is in the registry while Pair is not
C29_WitnessNested ==
    /\ op = "add" /\ err = "MaxDepthExceeded"
    /\ arg.val = <<<<"Pair">>>>
    /\ StructID(typeHash, <<"Inner">>) \in IdsOf(stObjects[eng]) \ IdsOf(before)
    /\ StructID(typeHash, <<"Pair">>) \notin IdsOf(stObjects[eng])

----------------------------------------------------------------------------
(* Properties of the slice codecs *)

\* the bytes of a []bool on the wire: its length, then 1 or 0 for each element
BoolSliceBytes(bits) == <<Len(bits)>> \o [i \in 1..Len(bits) |-> IF bits[i] THEN 1 ELSE 0]

\* C23: Encode writes a []bool of length n as the uvarint n and n bytes, the
\* i-th being 1 when element i is true and 0 when it is false, and Decode of
\* those bytes restores every element.  Bits is the first field of Flags.
C23_BoolSliceWire ==
    /\ (op = "Encode" /\ err = "" /\ wire.typ = <<"Flags">>) =>
            SubSeq(wire.data, 1, 1 + Len(wire.val[1])) = BoolSliceBytes(wire.val[1])
    /\ (op = "Decode" /\ err = "" /\ wire.typ = <<"Flags">>) =>
            dest.val[1][1] = wire.val[1]

\* the indexes of the slice fields of the struct types of OverInputs
SliceFields(t) == IF t = <<"Msg">> THEN {3, 4} ELSE IF t = <<"Outer">> THEN {3} ELSE {}

\* C24: after a Decode that succeeds, every slice of the destination has
\* exactly as many elements as the length encoded for it, whatever the
\* destination held before the call.
C24_SliceReplaced ==
    (op = "Decode" /\ err = "") =>
        \A k \in SliceFields(wire.typ) : Len(dest.val[1][k]) = Len(wire.val[k])

----------------------------------------------------------------------------
(* Properties of a scan that fails *)

\* the kinds scanType has no codec for
UnsupportedKinds == {"map", "chan", "func", "complex64", "complex128", "interface"}

\* a scan of type t comes to a type of an unsupported kind: t itself, its
\* element, or a field the scan does not skip
RECURSIVE HitsUnsupported(_)
HitsUnsupported(t) ==
    CASE Kind(t) \in {"ptr", "array", "slice"} -> HitsUnsupported(Elem(t))
      [] Kind(t) = "struct" ->
            \E i \in 1..Len(Fields(Head(t))) :
                /\ Fields(Head(t))[i].name # "_"
                /\ TagBinary(Head(t), i - 1) # "-"
                /\ HitsUnsupported(Fields(Head(t))[i].typ)
      [] OTHER -> Kind(t) \in UnsupportedKinds

\* the step is an Encode that scans a type, the cache holding no entry for it,
\* and the scan comes to an unsupported kind
ScanFails ==
    /\ op' = "Encode"
    /\ arg'.typ # <<"nil">>
    /\ ~findSchema(schemas[eng'], StructID(typeHash, arg'.typ)).found
    /\ HitsUnsupported(arg'.typ)

----------------------------------------------------------------------------
(* Properties of the encoder's sink *)

\* the writes the sink of the last EncodeTo was to take, and the calls of
\* out.Write it saw
SinkLeft == dest.val[1]
SinkTries == dest.val[2]

\* the encoder after Encode of the last call's value to a sink that takes
\* every write
WholeEncoder == encoderEncode(typeHash, <<>>, arg, Reset(NewEncoder, Healthy)).e

\* the last call was an EncodeTo whose sink failed at one of its writes
SinkFailed ==
    /\ op = "EncodeTo" /\ arg.typ # <<"nil">>
    /\ SinkLeft # Healthy /\ SinkLeft < WholeEncoder.tries

\* C21: once a write to the sink fails during an Encode call, no later write
\* of that call reaches the sink, and the call returns that write error.
C21_StickyWriteError ==
    SinkFailed =>
        /\ err = "SinkError"
        /\ SinkTries = SinkLeft + 1
        /\ Len(wire.data) < Len(WholeEncoder.out)
        /\ wire.data = SubSeq(WholeEncoder.out, 1, Len(wire.data))

\* the sink failed at a write that is neither the first nor the last of the call
C21_Witness ==
    /\ SinkFailed /\ err = "SinkError"
    /\ SinkLeft > 0 /\ SinkLeft + 1 < WholeEncoder.tries

\* the last call was an EncodeTo to a sink that takes every write, of a value
\* that can be encoded, on an encoder that came out of the pool holding the
\* sink error of an earlier call
ReusedAfterFailure ==
    /\ op = "EncodeTo"
    /\ dest.val[3] = "SinkError"
    /\ SinkLeft = Healthy
    /\ encode(typeHash, <<>>, arg).err = ""

\* C30: after an Encode call failed at its sink, the next Encode call of the
\* engine, on the same pooled encoder and a healthy sink, starts with no
\* error, writes its whole output and returns nil.
C30_NoStaleError ==
    ReusedAfterFailure =>
        /\ err = ""
        /\ SinkTries = WholeEncoder.tries
        /\ wire.data = encode(typeHash, <<>>, arg).b
        /\ \A w \in pools[eng].encoders.idle : pools[eng].encoders.errs[w] = ""

\* such a call of several writes has returned
C30_Witness == ReusedAfterFailure /\ arg.typ = <<"Msg">> /\ SinkTries > 1

\* the types whose cache entries are watched: the first MaxWatched of T1, T2, ...
MaxWatched == 3

WatchedTypes == {GenType(k) : k \in 1..MaxWatched}

\* C17: a type that has a codec in the cache of an engine has the same codec
\* there after every call, whatever other types the call scans.
C17_CacheStable ==
    [][\A e \in Engines, t \in WatchedTypes :
          LET was == findSchema(schemas[e], StructID(typeHash, t))
              is == findSchema(schemas'[e], StructID(typeHash, t))
          IN was.found => (is.found /\ is.codec = was.codec)]_vars

----------------------------------------------------------------------------
(* Properties of registration over the chain *)

\* the last call was AddStructs of the one chain struct t
AddedChain(t) == op = "add" /\ arg.val = <<t>>

\* none of the structs below and including t was registered before the call
ChainUnregistered(t) ==
    \A k \in ChainIndex(Head(t))..Len(ChainNames) :
        \A i \in 1..Len(before) : before[i].stID # typeHash[ChainNames[k]]

\* C7 as first stated: AddStructs of a chain succeeds when its deepest struct
\* is at depth <= MaxDepth and fails with the max-depth error when it is at
\* depth MaxDepth + 1.
C7_DepthLimitAlways ==
    \A t \in ChainTypes :
        AddedChain(t) =>
            /\ ChainDepth(t) <= MaxDepth[eng] => err = ""
            /\ ChainDepth(t) = MaxDepth[eng] + 1 => err = "MaxDepthExceeded"

\* C7: AddStructs of one chain none of whose structs is registered yet
\* succeeds when the deepest struct is at depth <= MaxDepth, registering the
\* whole chain, and fails with the max-depth error, registering nothing, when
\* it is at depth MaxDepth + 1; without a Config, MaxDepth is 8.
C7_DepthLimit ==
    /\ \A e \in Engines :
          (Len(cfg[e]) = 0 \/ cfg[e] = << <<>> >>) => MaxDepth[e] = 8
    /\ \A t \in ChainTypes :
          (AddedChain(t) /\ ChainUnregistered(t)) =>
              /\ ChainDepth(t) <= MaxDepth[eng] =>
                    (err = "" /\ Len(stObjects[eng]) = Len(before) + ChainDepth(t))
              /\ ChainDepth(t) = MaxDepth[eng] + 1 =>
                    (err = "MaxDepthExceeded" /\ stObjects[eng] = before)

C7_Witness ==
    /\ cfg["client"] = <<>>
    /\ AddedChain(<<"L2">>)
    /\ ChainUnregistered(<<"L2">>)
    /\ err = "MaxDepthExceeded"

C7_WitnessAtLimit ==
    /\ cfg["client"] = <<>>
    /\ AddedChain(<<"L3">>)
    /\ ChainUnregistered(<<"L3">>)
    /\ err = ""

====
